---- MODULE Spec2Model ----
(***************************************************************************)
(* Timeline ring buffer (CircularBuffer) and the aggregator that feeds it  *)
(* (TimelineAggregator), modelled from src/main/timeline.                  *)
(*                                                                         *)
(* Three specifications share the variables:                               *)
(*   Spec      a stand-alone CircularBuffer driven through its public      *)
(*             methods add / cleanup / clear / resize;                     *)
(*   SpecAgg   a TimelineAggregator owning the buffer, driven through      *)
(*             processEntries / updateConfig / the sweep timer;            *)
(*   SpecDown  a buffer that is filled and then queried with               *)
(*             getDataWithResolution.                                      *)
(*                                                                         *)
(* Dates are integers (milliseconds).  costUSD is a whole number of        *)
(* dollars: the costs handed in are whole numbers, which the doubles of    *)
(* the program add without rounding, so that + on them is the program's    *)
(* +=.  A point carries an id that stands for the identity of the          *)
(* JavaScript object (0 for objects built by aggregateBatch).              *)
(***************************************************************************)
EXTENDS Integers, Sequences, FiniteSets, TLC

\* ------------------------------------------------------------------ bounds
MaxCap == 3         \* largest capacity given to the constructor or to resize
MaxAdds == 3        \* add calls per behaviour of Spec
DeepAdds == 4       \* add calls per behaviour of SpecRun and of SpecDeep
MaxNow == 1         \* largest value of the clock Date.now()
MaxRetention == 1   \* largest retention (config.maxRetentionMs, cleanup argument)
AggCap == 2         \* capacity the aggregator of SpecAgg is constructed with
AggMaxAdds == 3     \* points added per behaviour of SpecAgg
MaxBatch == 2       \* largest batch handed to processEntries
DownCap == 10       \* capacity of the buffer of SpecDown
MaxPoints == 3      \* largest maxPoints given to getDataWithResolution
MaxTimers == 1      \* setInterval calls per behaviour of SpecAgg

\* --------------------------------------------------------------- JS values
\* An empty array slot / a missing argument.
undefined == [undefined |-> TRUE]

\* null, as distinct from undefined and from every number
null == [null |-> TRUE]

\* The number NaN, as produced by x % 0.  Used as an index it names the
\* property "NaN" of the array, modelled as slot NaN.
NaN == -1

\* The argument of cleanup() when it is called without one.
NoArg == -2

\* a + c for numbers that may be NaN
JsAdd(a, c) == IF a = NaN THEN NaN ELSE a + c

\* a % m for a non-negative dividend (the only one the buffer computes)
JsMod(a, m) == IF a = NaN \/ m = NaN \/ m = 0 THEN NaN ELSE a % m

Min(a, c) == IF a <= c THEN a ELSE c

\* ceil(a / m) for a >= 0, m >= 1
Ceil(a, m) == (a + m - 1) \div m

\* ------------------------------------------------------------------- state
VARIABLES
  buffer,            \* CircularBuffer.buffer: slot index -> point or undefined
  head,              \* CircularBuffer.head
  tail,              \* CircularBuffer.tail
  size,              \* CircularBuffer.size
  capacity,          \* CircularBuffer.capacity
  bufferConfig,      \* CircularBuffer.config (the object given to the constructor)
  listeners,         \* TRUE when a TimelineAggregator has registered its listeners
  config,            \* TimelineAggregator.config
  aggregationTimer,  \* TimelineAggregator.aggregationTimer: 0 = null, else timer id
  activeTimers,      \* ids of the intervals that are set and not cleared
  timersCreated,     \* number of setInterval calls so far
  manager,           \* the class that wraps the aggregator: "none",
                     \* "TimelineManager" (timeline-manager.ts) or "index"
                     \* (the TimelineManager of the index module)
  isEnabled,         \* TimelineManager.isEnabled
  now,               \* Date.now()
  added,             \* history: the points handed to add, in call order
  events,            \* events emitted by the last operation, in emission order
  lastOp,            \* the last operation: name, arguments, result, state before
  run,               \* history: n >= 0 when the buffer was empty and then add
                     \* was called n times and nothing else; -1 otherwise
  result             \* what the last operation returned when it was a query

bufVars == <<buffer, head, tail, size, capacity, bufferConfig>>
aggVars == <<listeners, config, aggregationTimer, activeTimers, timersCreated,
             manager, isEnabled>>
vars == <<buffer, head, tail, size, capacity, bufferConfig, listeners, config,
          aggregationTimer, activeTimers, timersCreated, manager, isEnabled,
          now, added, events, lastOp, run, result>>

Slots == NaN..(IF MaxCap > DownCap THEN MaxCap ELSE DownCap)

\* The fields of the buffer object as one record, so that methods are
\* operators from object states to object states.
self == [buffer |-> buffer, head |-> head, tail |-> tail, size |-> size,
         capacity |-> capacity]

\* --------------------------------------------------------------- test data
\* A data point as a caller of add builds it: identity id, bucket start ts,
\* token sums taken from shape, one model and one provider.
MkPoint(id, ts, shape) ==
  [id |-> id, timestamp |-> ts, durationMs |-> 1,
   inputTokens |-> shape.inputTokens, outputTokens |-> shape.outputTokens,
   cacheCreationTokens |-> shape.cacheCreationTokens,
   cacheReadTokens |-> shape.cacheReadTokens,
   totalTokens |-> shape.totalTokens, costUSD |-> shape.costUSD,
   entryCount |-> shape.entryCount,
   modelBreakdown |-> [m \in {shape.model} |->
      [model |-> m, inputTokens |-> shape.inputTokens,
       outputTokens |-> shape.outputTokens, totalTokens |-> shape.totalTokens,
       costUSD |-> shape.costUSD, entryCount |-> shape.entryCount]],
   providerBreakdown |-> [p \in {shape.provider} |->
      [providerId |-> p, providerName |-> p,
       inputTokens |-> shape.inputTokens, outputTokens |-> shape.outputTokens,
       cacheCreationTokens |-> shape.cacheCreationTokens,
       cacheReadTokens |-> shape.cacheReadTokens,
       totalTokens |-> shape.totalTokens, costUSD |-> shape.costUSD,
       entryCount |-> shape.entryCount]]]

\* The k-th point of a behaviour of Spec carries totalTokens 10 * k.
ShapeOfId(k) ==
  [inputTokens |-> 10 * k, outputTokens |-> 0, cacheCreationTokens |-> 0,
   cacheReadTokens |-> 0, totalTokens |-> 10 * k, costUSD |-> k, entryCount |-> 1,
   model |-> "m1", provider |-> "p1"]

\* The two kinds of point SpecDown fills the buffer with.
DownShapes ==
  { [inputTokens |-> 1, outputTokens |-> 2, cacheCreationTokens |-> 3,
     cacheReadTokens |-> 4, totalTokens |-> 10, costUSD |-> 5,
     entryCount |-> 1, model |-> "m1", provider |-> "p1"],
    [inputTokens |-> 20, outputTokens |-> 0, cacheCreationTokens |-> 7,
     cacheReadTokens |-> 1, totalTokens |-> 28, costUSD |-> 0,
     entryCount |-> 3, model |-> "m2", provider |-> "p1"] }

\* ------------------------------------------------------------------ events
Event(type) ==
  [type |-> type, data |-> undefined, overwrittenPoint |-> undefined,
   bufferSize |-> 0, removed |-> 0, remaining |-> 0,
   oldCapacity |-> 0, newCapacity |-> 0, dataLive |-> FALSE]

\* ------------------------------------------------- CircularBuffer, queries
isFull(b) == b.size = b.capacity

isEmpty(b) == b.size = 0

getStats(b) ==
  [capacity |-> b.capacity, size |-> b.size, isFull |-> b.size = b.capacity]

\* x || null: an empty slot is falsy, a data point is not
orNull(x) == IF x = undefined THEN null ELSE x

getOldest(b) == IF b.size = 0 THEN null ELSE orNull(b.buffer[b.tail])

getNewest(b) ==
  IF b.size = 0 THEN null
  ELSE orNull(b.buffer[JsMod(JsAdd(b.head, b.capacity - 1), b.capacity)])

RECURSIVE getRecentFrom(_, _, _)
getRecentFrom(b, i, actualCount) ==
  IF i >= actualCount THEN <<>>
  ELSE LET index == JsMod(JsAdd(b.head, b.capacity - 1 - i), b.capacity)
           point == b.buffer[index]
       IN (IF point # undefined THEN <<point>> ELSE <<>>)
          \o getRecentFrom(b, i + 1, actualCount)

getRecent(b, count) == getRecentFrom(b, 0, Min(count, b.size))

RECURSIVE windowFrom(_, _, _, _)
windowFrom(b, i, startTimeMs, endTimeMs) ==
  IF i >= b.size THEN <<>>
  ELSE LET index == JsMod(JsAdd(b.tail, i), b.capacity)
           point == b.buffer[index]
       IN (IF point # undefined /\ point.timestamp >= startTimeMs
              /\ point.timestamp <= endTimeMs
           THEN <<point>> ELSE <<>>)
          \o windowFrom(b, i + 1, startTimeMs, endTimeMs)

getDataInTimeWindow(b, startTimeMs, endTimeMs) ==
  windowFrom(b, 0, startTimeMs, endTimeMs)

\* ------------------------------------------- CircularBuffer, downsampling
\* Names every object inherits from Object.prototype: on the plain objects
\* used as breakdowns, breakdown[name] is truthy for them from the start.
ObjectPrototypeKeys ==
  {"constructor", "toString", "valueOf", "hasOwnProperty", "__proto__",
   "isPrototypeOf", "propertyIsEnumerable", "toLocaleString",
   "__defineGetter__", "__defineSetter__", "__lookupGetter__",
   "__lookupSetter__"}

\* One step of the loop of aggregateBatch: add point's sums to acc (the
\* costs are whole dollars, which += adds exactly).
\* if (!breakdown[name]) creates the usage record unless breakdown[name] is
\* truthy; for an inherited name it is, and the sums then go to the inherited
\* object, never to the breakdown.
foldPoint(acc, point) ==
  LET ownModels == {m \in DOMAIN point.modelBreakdown :
                      m \in DOMAIN acc.modelBreakdown
                      \/ m \notin ObjectPrototypeKeys}
      ownProviders == {p \in DOMAIN point.providerBreakdown :
                         p \in DOMAIN acc.providerBreakdown
                         \/ p \notin ObjectPrototypeKeys}
      mb0 == [m \in DOMAIN acc.modelBreakdown \cup ownModels |->
                IF m \in DOMAIN acc.modelBreakdown THEN acc.modelBreakdown[m]
                ELSE [model |-> m, inputTokens |-> 0, outputTokens |-> 0,
                      totalTokens |-> 0, costUSD |-> 0, entryCount |-> 0]]
      pb0 == [p \in DOMAIN acc.providerBreakdown \cup ownProviders |->
                IF p \in DOMAIN acc.providerBreakdown
                THEN acc.providerBreakdown[p]
                ELSE [providerId |-> point.providerBreakdown[p].providerId,
                      providerName |-> point.providerBreakdown[p].providerName,
                      inputTokens |-> 0, outputTokens |-> 0,
                      cacheCreationTokens |-> 0, cacheReadTokens |-> 0,
                      totalTokens |-> 0, costUSD |-> 0, entryCount |-> 0]]
  IN [acc EXCEPT
        !.inputTokens = @ + point.inputTokens,
        !.outputTokens = @ + point.outputTokens,
        !.cacheCreationTokens = @ + point.cacheCreationTokens,
        !.cacheReadTokens = @ + point.cacheReadTokens,
        !.totalTokens = @ + point.totalTokens,
        !.costUSD = @ + point.costUSD,
        !.entryCount = @ + point.entryCount,
        !.modelBreakdown =
           [m \in DOMAIN mb0 |->
              IF m \in ownModels
              THEN LET usage == point.modelBreakdown[m]
                   IN [mb0[m] EXCEPT
                         !.inputTokens = @ + usage.inputTokens,
                         !.outputTokens = @ + usage.outputTokens,
                         !.totalTokens = @ + usage.totalTokens,
                         !.costUSD = @ + usage.costUSD,
                         !.entryCount = @ + usage.entryCount]
              ELSE mb0[m]],
        !.providerBreakdown =
           [p \in DOMAIN pb0 |->
              IF p \in ownProviders
              THEN LET usage == point.providerBreakdown[p]
                   IN [pb0[p] EXCEPT
                         !.inputTokens = @ + usage.inputTokens,
                         !.outputTokens = @ + usage.outputTokens,
                         !.cacheCreationTokens = @ + usage.cacheCreationTokens,
                         !.cacheReadTokens = @ + usage.cacheReadTokens,
                         !.totalTokens = @ + usage.totalTokens,
                         !.costUSD = @ + usage.costUSD,
                         !.entryCount = @ + usage.entryCount]
              ELSE pb0[p]]]

RECURSIVE foldPoints(_, _, _)
foldPoints(batch, i, acc) ==
  IF i > Len(batch) THEN acc
  ELSE foldPoints(batch, i + 1, foldPoint(acc, batch[i]))

\* an aggregation that stamps the synthetic point with the last element
aggregateBatchLastStamp(batch) ==
  LET first == batch[1]
      last == batch[Len(batch)]
      zero == [id |-> 0, timestamp |-> last.timestamp,
               durationMs |-> last.timestamp - first.timestamp + last.durationMs,
               inputTokens |-> 0, outputTokens |-> 0,
               cacheCreationTokens |-> 0, cacheReadTokens |-> 0,
               totalTokens |-> 0, costUSD |-> 0, entryCount |-> 0,
               modelBreakdown |-> [k \in {} |-> 0],
               providerBreakdown |-> [k \in {} |-> 0]]
  IN foldPoints(batch, 1, zero)

\* aggregateBatch(batch) for a non-empty batch; the object it returns is a
\* new one (id 0).
aggregateBatch(batch) ==
  LET first == batch[1]
      last == batch[Len(batch)]
      zero == [id |-> 0, timestamp |-> first.timestamp,
               durationMs |-> last.timestamp - first.timestamp + last.durationMs,
               inputTokens |-> 0, outputTokens |-> 0,
               cacheCreationTokens |-> 0, cacheReadTokens |-> 0,
               totalTokens |-> 0, costUSD |-> 0, entryCount |-> 0,
               modelBreakdown |-> [k \in {} |-> 0],
               providerBreakdown |-> [k \in {} |-> 0]]
  IN foldPoints(batch, 1, zero)

\* the step of the mutant that rounds down
downsampleStepFloor(length, maxPoints) == length \div maxPoints

\* step = Math.ceil(allPoints.length / maxPoints)
downsampleStep(length, maxPoints) == Ceil(length, maxPoints)

\* the end of the slice of the mutant that drops the last point of a batch
batchEndShort(i, step, length) ==
  IF step > 1 THEN Min(i + step - 1, length) ELSE Min(i + step, length)

\* Math.min(i + step, allPoints.length)
batchEnd(i, step, length) == Min(i + step, length)

\* The loop of getDataWithResolution from the 0-based index i on.
RECURSIVE downsampleFrom(_, _, _)
downsampleFrom(allPoints, i, step) ==
  IF i >= Len(allPoints) THEN <<>>
  ELSE LET batch == SubSeq(allPoints, i + 1,
                           batchEnd(i, step, Len(allPoints)))
       IN <<IF Len(batch) = 1 THEN batch[1] ELSE aggregateBatch(batch)>>
          \o downsampleFrom(allPoints, i + step, step)

\* a query that returns the window as it is, whatever maxPoints says
getDataWithResolutionRaw(b, startTimeMs, endTimeMs, maxPoints) ==
  getDataInTimeWindow(b, startTimeMs, endTimeMs)

\* getDataWithResolution(startTimeMs, endTimeMs, maxPoints), maxPoints >= 1
getDataWithResolution(b, startTimeMs, endTimeMs, maxPoints) ==
  LET allPoints == getDataInTimeWindow(b, startTimeMs, endTimeMs)
  IN IF Len(allPoints) <= maxPoints THEN allPoints
     ELSE downsampleFrom(allPoints, 0,
                         downsampleStep(Len(allPoints), maxPoints))

\* ---------------------------------------------- CircularBuffer, mutators
\* Each mutator yields [b, ret, threw, events]: the object state after the
\* call, the returned value, whether it threw, and the events it emitted.

\* TRUE when the object dataPoint sits in one of the size slots from tail on.
IsLive(b, dataPoint) ==
  \E i \in 0..(b.size - 1) :
     b.buffer[JsMod(JsAdd(b.tail, i), b.capacity)] = dataPoint

RECURSIVE cleanupLoop(_, _, _)
cleanupLoop(b, cutoffTime, removed) ==
  LET oldest == getOldest(b)
  IN IF b.size > 0 /\ oldest # null /\ oldest.timestamp < cutoffTime
     THEN cleanupLoop([b EXCEPT !.buffer[b.tail] = undefined,
                                !.tail = JsMod(JsAdd(b.tail, 1), b.capacity),
                                !.size = b.size - 1],
                      cutoffTime, removed + 1)
     ELSE [b |-> b, removed |-> removed]

\* maxAgeMs || this.config.maxRetentionMs: a missing argument and 0 are falsy
retentionOf(maxAgeMs) ==
  IF maxAgeMs = NoArg \/ maxAgeMs = 0 THEN bufferConfig.maxRetentionMs
  ELSE maxAgeMs

cleanup(b, maxAgeMs) ==
  LET retentionMs == retentionOf(maxAgeMs)
      cutoffTime == now - retentionMs
      r == cleanupLoop(b, cutoffTime, 0)
  IN [b |-> r.b, ret |-> r.removed, threw |-> FALSE,
      events |-> IF r.removed > 0
                 THEN <<[Event("memory-cleanup") EXCEPT
                           !.removed = r.removed, !.remaining = r.b.size]>>
                 ELSE <<>>]

\* the size an add leaves, with the test of the mutant dropped
sizeAfterAddUnbounded(b) == b.size + 1

\* size after add: if (this.size < this.capacity) this.size++
sizeAfterAdd(b) == IF b.size < b.capacity THEN b.size + 1 ELSE b.size

\* the tail an add leaves when it forgets to advance it
tailAfterAddStuck(b) == b.tail

\* tail after add: advanced when the buffer was full
tailAfterAdd(b) ==
  IF b.size < b.capacity THEN b.tail
  ELSE JsMod(JsAdd(b.tail, 1), b.capacity)

\* an add that announces the point before the overflow it caused
emittedByAddPointFirst(overflow, swept, pointAdded) ==
  <<pointAdded>> \o overflow \o swept

\* what an add emits, in order: 'buffer-overflow' inside the else branch
\* (its listeners run there), then 'data-point-added'
emittedByAdd(overflow, swept, pointAdded) ==
  overflow \o swept \o <<pointAdded>>

add(b, dataPoint) ==
  LET overwritten == b.size = b.capacity
      written == [b EXCEPT !.buffer[b.head] = dataPoint,
                           !.head = JsMod(JsAdd(b.head, 1), b.capacity)]
      moved == [written EXCEPT !.size = sizeAfterAdd(b),
                               !.tail = tailAfterAdd(b)]
      overflow == IF b.size < b.capacity THEN <<>>
                  ELSE <<[Event("buffer-overflow") EXCEPT
                            !.overwrittenPoint = moved.buffer[moved.tail],
                            !.bufferSize = moved.size]>>
      \* the aggregator's 'buffer-overflow' listener runs performCleanup()
      swept == IF overflow # <<>> /\ listeners THEN cleanup(moved, NoArg)
               ELSE [b |-> moved, ret |-> 0, threw |-> FALSE, events |-> <<>>]
      pointAdded == [Event("data-point-added") EXCEPT
                       !.data = dataPoint,
                       !.dataLive = IsLive(swept.b, dataPoint)]
  IN [b |-> swept.b, ret |-> overwritten, threw |-> FALSE,
      events |-> emittedByAdd(overflow, swept.events, pointAdded)]

\* a clear that empties the slots and the size but leaves the cursors
clearKeepsCursors(b) ==
  [b |-> [b EXCEPT !.buffer = [i \in Slots |-> undefined], !.size = 0],
   ret |-> 0, threw |-> FALSE, events |-> <<Event("buffer-cleared")>>]

\* clear(): a new array of capacity slots, head, tail and size 0
clear(b) ==
  [b |-> [b EXCEPT !.buffer = [i \in Slots |-> undefined],
                   !.head = 0, !.tail = 0, !.size = 0],
   ret |-> 0, threw |-> FALSE, events |-> <<Event("buffer-cleared")>>]

\* the precondition of resize, off by one
resizeRejectsLate(b, newCapacity) == newCapacity + 1 < b.size

\* if (newCapacity < this.size) throw
resizeRejects(b, newCapacity) == newCapacity < b.size

\* the slot copied to newBuffer[i] when the offset of tail is forgotten
resizeSourceNoTail(b, i) == i

\* oldIndex = (this.tail + i) % this.capacity
resizeSource(b, i) == JsMod(JsAdd(b.tail, i), b.capacity)

resize(b, newCapacity) ==
  IF resizeRejects(b, newCapacity)
  THEN [b |-> b, ret |-> 0, threw |-> TRUE, events |-> <<>>]
  ELSE LET newBuffer == [i \in Slots |->
                           IF i >= 0 /\ i < b.size
                           THEN b.buffer[resizeSource(b, i)]
                           ELSE undefined]
       IN [b |-> [buffer |-> newBuffer, capacity |-> newCapacity,
                  head |-> b.size, tail |-> 0, size |-> b.size],
           ret |-> 0, threw |-> FALSE,
           \* metadata.oldCapacity reads this.capacity after it was assigned
           events |-> <<[Event("buffer-resized") EXCEPT
                           !.oldCapacity = newCapacity,
                           !.newCapacity = newCapacity]>>]

\* ----------------------------------------------------------------- actions
\* The cursors of an object state (what lastOp keeps of the state before a
\* resize, which packs the points anew and resets the cursors).
cursors(b) == [head |-> b.head, tail |-> b.tail, size |-> b.size,
               capacity |-> b.capacity]

\* What lastOp keeps in place of the cursors for the other calls.
noCursors == [head |-> 0, tail |-> 0, size |-> 0, capacity |-> 0]

\* The record kept of an operation: name, arguments, returned value, whether
\* it threw and, for resize, the cursors before the call.
Op(name, r) ==
  [op |-> name, point |-> undefined, n |-> 0, maxAgeMs |-> NoArg,
   ret |-> r.ret, threw |-> r.threw, pre |-> noCursors]

\* Install the object state r.b and record the call.
Apply(r, op) ==
  /\ buffer' = r.b.buffer
  /\ head' = r.b.head
  /\ tail' = r.b.tail
  /\ size' = r.b.size
  /\ capacity' = r.b.capacity
  /\ events' = r.events
  /\ lastOp' = op
  /\ run' = IF r.b.size = 0 THEN 0 ELSE -1

\* TRUE when the events of a call show that a sweep ran inside it.
Swept(evs) == \E i \in 1..Len(evs) : evs[i].type = "memory-cleanup"

\* Install the object state after an add and record the call.
ApplyAdd(r, op) ==
  /\ buffer' = r.b.buffer
  /\ head' = r.b.head
  /\ tail' = r.b.tail
  /\ size' = r.b.size
  /\ capacity' = r.b.capacity
  /\ events' = r.events
  /\ lastOp' = op
  /\ run' = IF Swept(r.events) THEN (IF r.b.size = 0 THEN 0 ELSE -1)
            ELSE IF run >= 0 THEN run + 1 ELSE -1

\* add(dataPoint) while fewer than limit points were added; the k-th point
\* added has id k and totalTokens 10 * k.
AddUpTo(limit, ts) ==
  /\ Len(added) < limit
  /\ LET id == Len(added) + 1
         dataPoint == MkPoint(id, ts, ShapeOfId(id))
         r == add(self, dataPoint)
     IN /\ ApplyAdd(r, [Op("add", r) EXCEPT !.point = dataPoint])
        /\ added' = Append(added, dataPoint)
  /\ UNCHANGED <<bufferConfig, aggVars, now, result>>

Add(ts) == AddUpTo(MaxAdds, ts)

AddDeep(ts) == AddUpTo(DeepAdds, ts)

Cleanup(maxAgeMs) ==
  /\ LET r == cleanup(self, maxAgeMs)
     IN Apply(r, [Op("cleanup", r) EXCEPT !.maxAgeMs = maxAgeMs])
  /\ UNCHANGED <<bufferConfig, aggVars, now, added, result>>

Clear ==
  /\ LET r == clear(self) IN Apply(r, Op("clear", r))
  /\ UNCHANGED <<bufferConfig, aggVars, now, added, result>>

Resize(newCapacity) ==
  /\ LET r == resize(self, newCapacity)
     IN Apply(r, [Op("resize", r) EXCEPT !.n = newCapacity,
                                         !.pre = cursors(self)])
  /\ UNCHANGED <<bufferConfig, aggVars, now, added, result>>

\* The clock Date.now() advances; lastOp and events describe the last step,
\* so they are reset.
Tick ==
  /\ now < MaxNow
  /\ now' = now + 1
  /\ lastOp' = [op |-> "tick", point |-> undefined, n |-> 0, maxAgeMs |-> NoArg,
                ret |-> 0, threw |-> FALSE, pre |-> noCursors]
  /\ events' = <<>>
  /\ UNCHANGED <<bufVars, aggVars, added, run, result>>

\* An add of SpecDown: the k-th point has bucket start k and one of the
\* shapes of DownShapes.
AddShape(shape) ==
  /\ Len(added) < DownCap
  /\ LET id == Len(added) + 1
         dataPoint == MkPoint(id, id, shape)
         r == add(self, dataPoint)
     IN /\ ApplyAdd(r, [Op("add", r) EXCEPT !.point = dataPoint])
        /\ added' = Append(added, dataPoint)
  /\ result' = <<>>
  /\ UNCHANGED <<bufferConfig, aggVars, now>>

\* A call of getDataWithResolution; the arguments and the returned points
\* are kept in result.
Downsample(startTimeMs, endTimeMs, maxPoints) ==
  /\ result' = [startTimeMs |-> startTimeMs, endTimeMs |-> endTimeMs,
                maxPoints |-> maxPoints,
                points |-> getDataWithResolution(self, startTimeMs, endTimeMs,
                                                 maxPoints)]
  /\ lastOp' = [op |-> "getDataWithResolution", point |-> undefined,
                n |-> maxPoints, maxAgeMs |-> NoArg, ret |-> 0,
                threw |-> FALSE, pre |-> noCursors]
  /\ events' = <<>>
  /\ UNCHANGED <<bufVars, aggVars, now, added, run>>

\* new CircularBuffer(config)
NewConfig(bufferSize, maxRetentionMs) ==
  [bufferSize |-> bufferSize, maxRetentionMs |-> maxRetentionMs,
   aggregationIntervalMs |-> 1, resolutionMs |-> 2,
   enablePrediction |-> FALSE, maxDataPoints |-> 2]

InitBuffer(cfg) ==
  /\ capacity = cfg.bufferSize
  /\ bufferConfig = cfg
  /\ buffer = [i \in Slots |-> undefined]
  /\ head = 0
  /\ tail = 0
  /\ size = 0

Init ==
  /\ \E c \in {MaxCap}, r \in 0..MaxRetention :
        /\ InitBuffer(NewConfig(c, r))
        /\ config = NewConfig(c, r)
  /\ listeners = FALSE
  /\ aggregationTimer = 0
  /\ activeTimers = {}
  /\ timersCreated = 0
  /\ manager = "none"
  /\ isEnabled = TRUE
  /\ now = 0
  /\ added = <<>>
  /\ events = <<>>
  /\ lastOp = [op |-> "new", point |-> undefined, n |-> 0, maxAgeMs |-> NoArg,
               ret |-> 0, threw |-> FALSE,
               pre |-> noCursors]
  /\ run = 0
  /\ result = <<>>

\* The arguments given to cleanup: none, or a maximum age.
CleanupArgs == {NoArg} \cup (0..MaxRetention)

\* The bucket starts given to the points handed to add.
AddTimes == {0, now}

Next ==
  \/ \E ts \in AddTimes : Add(ts)
  \/ \E maxAgeMs \in CleanupArgs : Cleanup(maxAgeMs)
  \/ Clear
  \/ \E newCapacity \in 0..MaxCap : Resize(newCapacity)
  \/ Tick

Spec == Init /\ [][Next]_vars

\* The same operations over longer histories.
NextDeep ==
  \/ \E ts \in AddTimes : AddDeep(ts)
  \/ \E maxAgeMs \in CleanupArgs : Cleanup(maxAgeMs)
  \/ Clear
  \/ \E newCapacity \in 0..MaxCap : Resize(newCapacity)
  \/ Tick

SpecDeep == Init /\ [][NextDeep]_vars

\* Runs of add calls, on buffers emptied by clear and sized by resize.
NextRun ==
  \/ \E ts \in AddTimes : AddDeep(ts)
  \/ Clear
  \/ \E newCapacity \in 0..MaxCap : Resize(newCapacity)

SpecRun == Init /\ [][NextRun]_vars

\* ------------------------------------------------------ TimelineAggregator
\* The usage records a provider hands over (NormalizedEntry); the cost is a
\* whole number of dollars.
Entry(ts, model, provider, inTok, outTok, ccTok, crTok) ==
  [timestamp |-> ts, model |-> model, provider |-> provider,
   inputTokens |-> inTok, outputTokens |-> outTok,
   cacheCreationTokens |-> ccTok, cacheReadTokens |-> crTok,
   totalTokens |-> inTok + outTok + ccTok + crTok, costUSD |-> inTok + outTok]

EntryPool ==
  { Entry(0, "m1", "p1", 1, 2, 0, 0),
    Entry(1, "m2", "p1", 2, 0, 1, 0),
    Entry(2, "m1", "p2", 0, 3, 0, 2) }

\* Rounding to the nearest interval boundary, which the code does not do.
intervalStartNearest(timestampMs, resolutionMs) ==
  ((2 * timestampMs + resolutionMs) \div (2 * resolutionMs)) * resolutionMs

\* intervalStart = Math.floor(timestampMs / resolutionMs) * resolutionMs
intervalStartOf(timestampMs, resolutionMs) ==
  (timestampMs \div resolutionMs) * resolutionMs

\* The Map built by groupEntriesByTimeInterval, as the sequence of its
\* [key, entries] pairs in insertion order.
RECURSIVE groupFrom(_, _, _, _)
groupFrom(entries, i, resolutionMs, groups) ==
  IF i > Len(entries) THEN groups
  ELSE LET entry == entries[i]
           intervalStart == intervalStartOf(entry.timestamp, resolutionMs)
           has == \E g \in 1..Len(groups) : groups[g].key = intervalStart
           next == IF has
                   THEN [g \in 1..Len(groups) |->
                           IF groups[g].key = intervalStart
                           THEN [groups[g] EXCEPT
                                   !.entries = Append(groups[g].entries, entry)]
                           ELSE groups[g]]
                   ELSE Append(groups, [key |-> intervalStart,
                                        entries |-> <<entry>>])
       IN groupFrom(entries, i + 1, resolutionMs, next)

\* a grouping that starts from a Map holding an empty group for interval 0
groupEntriesPreallocated(entries, resolutionMs) ==
  groupFrom(entries, 1, resolutionMs, <<[key |-> 0, entries |-> <<>>]>>)

\* groupEntriesByTimeInterval(entries): the Map starts empty
groupEntriesByTimeInterval(entries, resolutionMs) ==
  groupFrom(entries, 1, resolutionMs, <<>>)

\* entries.sort((a, b) => a.timestamp - b.timestamp): a stable sort
RECURSIVE insertSorted(_, _)
insertSorted(sorted, entry) ==
  IF sorted = <<>> THEN <<entry>>
  ELSE IF sorted[Len(sorted)].timestamp <= entry.timestamp
       THEN Append(sorted, entry)
       ELSE Append(insertSorted(SubSeq(sorted, 1, Len(sorted) - 1), entry),
                   sorted[Len(sorted)])

RECURSIVE sortByTimestamp(_)
sortByTimestamp(entries) ==
  IF entries = <<>> THEN <<>>
  ELSE insertSorted(sortByTimestamp(SubSeq(entries, 1, Len(entries) - 1)),
                    entries[Len(entries)])

\* const paddingMs: new Date(lastEntry.timestamp.getTime() + 1000)
PaddingMs == 1000

\* the entryCount of a usage record that is never counted up
entryCountKept(entryCount) == entryCount

\* modelUsage.entryCount++, providerUsage.entryCount++
entryCountAfter(entryCount) == entryCount + 1

\* One step of the loop of createTimelineDataPoint: fold entry into acc.
\* if (!breakdown[name]) creates the usage record unless breakdown[name] is
\* truthy; for an inherited name it is, and the sums then go to the inherited
\* object, never to the breakdown.
foldEntry(acc, entry) ==
  LET modelInherited == /\ entry.model \in ObjectPrototypeKeys
                        /\ entry.model \notin DOMAIN acc.modelBreakdown
      providerInherited == /\ entry.provider \in ObjectPrototypeKeys
                           /\ entry.provider \notin DOMAIN acc.providerBreakdown
      mb0 == IF entry.model \in DOMAIN acc.modelBreakdown
             THEN acc.modelBreakdown
             ELSE acc.modelBreakdown @@
                  (entry.model :> [model |-> entry.model, inputTokens |-> 0,
                                   outputTokens |-> 0, totalTokens |-> 0,
                                   costUSD |-> 0, entryCount |-> 0])
      mu == mb0[entry.model]
      pb0 == IF entry.provider \in DOMAIN acc.providerBreakdown
             THEN acc.providerBreakdown
             ELSE acc.providerBreakdown @@
                  (entry.provider :>
                     [providerId |-> entry.provider,
                      providerName |-> entry.provider, inputTokens |-> 0,
                      outputTokens |-> 0, cacheCreationTokens |-> 0,
                      cacheReadTokens |-> 0, totalTokens |-> 0,
                      costUSD |-> 0, entryCount |-> 0])
      pu == pb0[entry.provider]
  IN [acc EXCEPT
        !.inputTokens = @ + entry.inputTokens,
        !.outputTokens = @ + entry.outputTokens,
        !.cacheCreationTokens = @ + entry.cacheCreationTokens,
        !.cacheReadTokens = @ + entry.cacheReadTokens,
        !.totalTokens = @ + entry.totalTokens,
        !.costUSD = @ + entry.costUSD,
        !.modelBreakdown =
           IF modelInherited THEN acc.modelBreakdown
           ELSE [mb0 EXCEPT ![entry.model] =
                   [mu EXCEPT !.inputTokens = @ + entry.inputTokens,
                              !.outputTokens = @ + entry.outputTokens,
                              !.totalTokens = @ + entry.totalTokens,
                              !.costUSD = @ + entry.costUSD,
                              !.entryCount = entryCountAfter(@)]],
        !.providerBreakdown =
           IF providerInherited THEN acc.providerBreakdown
           ELSE [pb0 EXCEPT ![entry.provider] =
                   [pu EXCEPT !.inputTokens = @ + entry.inputTokens,
                              !.outputTokens = @ + entry.outputTokens,
                              !.cacheCreationTokens = @ + entry.cacheCreationTokens,
                              !.cacheReadTokens = @ + entry.cacheReadTokens,
                              !.totalTokens = @ + entry.totalTokens,
                              !.costUSD = @ + entry.costUSD,
                              !.entryCount = entryCountAfter(@)]]]

RECURSIVE foldEntries(_, _, _)
foldEntries(entries, i, acc) ==
  IF i > Len(entries) THEN acc
  ELSE foldEntries(entries, i + 1, foldEntry(acc, entries[i]))

\* An empty function, the object {}.
EmptyMap == [k \in {} |-> 0]

\* createTimelineDataPoint(timestamp, entries) for a non-empty group; id is
\* the identity of the object it returns.
\* if (entries.length === 0) throw new Error('Cannot create data point from
\* empty entry group')
emptyGroup(entries) == Len(entries) = 0

createTimelineDataPoint(id, timestamp, entries) ==
  LET sorted == sortByTimestamp(entries)
      lastEntry == sorted[Len(sorted)]
      zero == [id |-> id, timestamp |-> timestamp,
               durationMs |-> (lastEntry.timestamp + PaddingMs) - timestamp,
               inputTokens |-> 0, outputTokens |-> 0,
               cacheCreationTokens |-> 0, cacheReadTokens |-> 0,
               totalTokens |-> 0, costUSD |-> 0,
               entryCount |-> Len(sorted),
               modelBreakdown |-> EmptyMap, providerBreakdown |-> EmptyMap]
  IN foldEntries(sorted, 1, zero)

\* The loop of processEntries over the groups: one add per group, each on
\* the state the previous one left.  acc carries the object state, the
\* points handed to add, the events, and whether a sweep ran inside an add.
RECURSIVE addGroups(_, _, _)
addGroups(groups, g, acc) ==
  IF g > Len(groups) THEN acc
  ELSE IF emptyGroup(groups[g].entries) THEN [acc EXCEPT !.threw = TRUE]
  ELSE LET dataPoint == createTimelineDataPoint(acc.nextId, groups[g].key,
                                                groups[g].entries)
           r == add(acc.b, dataPoint)
       IN addGroups(groups, g + 1,
                    [b |-> r.b, nextId |-> acc.nextId + 1, threw |-> FALSE,
                     points |-> Append(acc.points, dataPoint),
                     events |-> acc.events \o r.events,
                     run |-> IF Swept(r.events)
                             THEN (IF r.b.size = 0 THEN 0 ELSE -1)
                             ELSE IF acc.run >= 0 THEN acc.run + 1 ELSE -1])

\* a processing that announces every batch it is given, empty ones too
processEntriesAnnounced(b, entries, nextId) ==
  addGroups(groupEntriesByTimeInterval(entries, config.resolutionMs), 1,
            [b |-> b, nextId |-> nextId, threw |-> FALSE, points |-> <<>>,
             events |-> <<Event("entries-processed")>>, run |-> run])

processEntries(b, entries, nextId) ==
  addGroups(groupEntriesByTimeInterval(entries, config.resolutionMs), 1,
            [b |-> b, nextId |-> nextId, threw |-> FALSE, points |-> <<>>,
             events |-> <<>>, run |-> run])

\* The record kept of an aggregator call.
AggOp(name) ==
  [op |-> name, point |-> undefined, n |-> 0, maxAgeMs |-> NoArg,
   ret |-> 0, threw |-> FALSE,
   pre |-> noCursors]

ProcessEntries(entries) ==
  /\ listeners
  /\ LET groups == groupEntriesByTimeInterval(entries, config.resolutionMs)
         r == processEntries(self, entries, Len(added) + 1)
     IN /\ Len(added) + Len(groups) <= AggMaxAdds
        /\ buffer' = r.b.buffer
        /\ head' = r.b.head
        /\ tail' = r.b.tail
        /\ size' = r.b.size
        /\ capacity' = r.b.capacity
        /\ events' = r.events
        /\ run' = r.run
        /\ added' = added \o r.points
        /\ lastOp' = [AggOp("processEntries") EXCEPT !.n = Len(entries),
                                                     !.threw = r.threw]
  /\ UNCHANGED <<bufferConfig, aggVars, now, result>>

\* performCleanup(): this.buffer.cleanup()
performCleanup(b) == cleanup(b, NoArg)

\* startAggregationTimer(): clear the interval held, set a new one
startAggregationTimer ==
  /\ timersCreated' = timersCreated + 1
  /\ aggregationTimer' = timersCreated + 1
  /\ activeTimers' = (IF aggregationTimer # 0
                      THEN activeTimers \ {aggregationTimer}
                      ELSE activeTimers) \cup {timersCreated + 1}

\* initialize(): start the timer, then sweep once
Initialize ==
  /\ listeners
  /\ timersCreated < MaxTimers
  /\ startAggregationTimer
  /\ LET r == performCleanup(self)
     IN Apply(r, [AggOp("initialize") EXCEPT !.ret = r.ret])
  /\ UNCHANGED <<bufferConfig, listeners, config, manager, isEnabled, now,
                 added, result>>

\* The callback of an interval that is set: performCleanup()
Sweep ==
  /\ listeners
  /\ activeTimers # {}
  /\ LET r == performCleanup(self)
     IN Apply(r, [AggOp("sweep") EXCEPT !.ret = r.ret])
  /\ UNCHANGED <<bufferConfig, aggVars, now, added, result>>

\* a merge that takes every field of newConfig but resolutionMs
mergeConfigKeepsResolution(old, newConfig) ==
  [k \in DOMAIN old |-> IF k \in DOMAIN newConfig /\ k # "resolutionMs"
                        THEN newConfig[k] ELSE old[k]]

\* { ...this.config, ...newConfig }
mergeConfig(old, newConfig) ==
  [k \in DOMAIN old |-> IF k \in DOMAIN newConfig THEN newConfig[k] ELSE old[k]]

\* the test of an updateConfig that resizes only to grow
resizeWantedToGrow(newConfig, oldConfig) ==
  /\ "bufferSize" \in DOMAIN newConfig
  /\ newConfig.bufferSize # 0
  /\ newConfig.bufferSize > oldConfig.bufferSize

\* newConfig.bufferSize && newConfig.bufferSize !== oldConfig.bufferSize
resizeWanted(newConfig, oldConfig) ==
  /\ "bufferSize" \in DOMAIN newConfig
  /\ newConfig.bufferSize # 0
  /\ newConfig.bufferSize # oldConfig.bufferSize

\* updateConfig(newConfig): merge, resize when bufferSize is truthy and
\* differs, restart the timer when aggregationIntervalMs is truthy and
\* differs, emit 'config-updated'.  A throw of resize ends the call there.
\* after: what the caller emits once the call has returned.
UpdateConfigThen(newConfig, after) ==
  /\ listeners
  /\ LET oldConfig == config
         wantsResize == resizeWanted(newConfig, oldConfig)
         r == IF wantsResize THEN resize(self, newConfig.bufferSize)
              ELSE [b |-> self, ret |-> 0, threw |-> FALSE, events |-> <<>>]
         wantsTimer == /\ ~r.threw
                       /\ "aggregationIntervalMs" \in DOMAIN newConfig
                       /\ newConfig.aggregationIntervalMs # 0
                       /\ newConfig.aggregationIntervalMs
                            # oldConfig.aggregationIntervalMs
     IN /\ config' = mergeConfig(config, newConfig)
        /\ IF wantsTimer
           THEN timersCreated < MaxTimers /\ startAggregationTimer
           ELSE UNCHANGED <<aggregationTimer, activeTimers, timersCreated>>
        /\ Apply([r EXCEPT !.events =
                     IF r.threw THEN r.events
                     ELSE r.events \o <<Event("config-updated")>> \o after],
                 [AggOp("updateConfig") EXCEPT !.threw = r.threw,
                     !.pre = cursors(self),
                     !.n = IF "bufferSize" \in DOMAIN newConfig
                           THEN newConfig.bufferSize ELSE 0])
  /\ UNCHANGED <<bufferConfig, listeners, manager, isEnabled, now, added,
                 result>>

UpdateConfig(newConfig) == UpdateConfigThen(newConfig, <<>>)

\* TimelineAggregator.clear(): this.buffer.clear(); after: what the caller
\* emits once the call has returned
AggClearThen(after) ==
  /\ listeners
  /\ LET r == clear(self)
     IN Apply([r EXCEPT !.events = @ \o after], AggOp("clear"))
  /\ UNCHANGED <<bufferConfig, aggVars, now, added, result>>

AggClear == AggClearThen(<<>>)

\* TimelineAggregator.cleanup(): clear the interval held
AggCleanup ==
  /\ listeners
  /\ aggregationTimer' = 0
  /\ activeTimers' = IF aggregationTimer # 0
                     THEN activeTimers \ {aggregationTimer} ELSE activeTimers
  /\ lastOp' = AggOp("aggregatorCleanup")
  /\ events' = <<>>
  /\ UNCHANGED <<bufVars, listeners, config, timersCreated, manager,
                 isEnabled, now, added, run,
                 result>>

\* The batches handed to processEntries: sequences over EntryPool.
Batches ==
  UNION {[1..n -> EntryPool] : n \in 0..MaxBatch}

\* The batches of SpecAgg: those that hold no entry twice.
DistinctBatches ==
  {entries \in Batches :
     \A i, j \in 1..Len(entries) : i # j => entries[i] # entries[j]}

\* The partial configurations handed to updateConfig.
ConfigUpdates ==
  {[bufferSize |-> n] : n \in 1..AggCap}
  \cup {[maxRetentionMs |-> MaxRetention]}
  \cup {[aggregationIntervalMs |-> 2]}
  \cup {[resolutionMs |-> 1]}

\* new TimelineAggregator(config): the buffer is built from the merged
\* configuration and the two listeners are registered.
InitAgg ==
  /\ InitBuffer(NewConfig(AggCap, 0))
  /\ config = NewConfig(AggCap, 0)
  /\ listeners = TRUE
  /\ aggregationTimer = 0
  /\ activeTimers = {}
  /\ timersCreated = 0
  /\ manager = "none"
  /\ isEnabled = TRUE
  /\ now = 0
  /\ added = <<>>
  /\ events = <<>>
  /\ lastOp = [op |-> "new", point |-> undefined, n |-> 0, maxAgeMs |-> NoArg,
               ret |-> 0, threw |-> FALSE,
               pre |-> noCursors]
  /\ run = 0
  /\ result = <<>>

NextAgg ==
  \/ \E entries \in DistinctBatches : ProcessEntries(entries)
  \/ Initialize
  \/ Sweep
  \/ AggClear
  \/ AggCleanup
  \/ Tick

SpecAgg == InitAgg /\ [][NextAgg]_vars

\* A buffer of capacity DownCap, filled and queried.
InitDown ==
  /\ InitBuffer(NewConfig(DownCap, 1))
  /\ config = NewConfig(DownCap, 1)
  /\ listeners = FALSE
  /\ aggregationTimer = 0
  /\ activeTimers = {}
  /\ timersCreated = 0
  /\ manager = "none"
  /\ isEnabled = TRUE
  /\ now = 0
  /\ added = <<>>
  /\ events = <<>>
  /\ lastOp = [op |-> "new", point |-> undefined, n |-> 0, maxAgeMs |-> NoArg,
               ret |-> 0, threw |-> FALSE,
               pre |-> noCursors]
  /\ run = 0
  /\ result = <<>>

\* The windows queried: all the bucket starts, and all but the first and the
\* last one.
DownWindows == {<<1, DownCap>>, <<2, DownCap - 1>>}

\* The capacity the buffer of SpecDown is shrunk to, once, when it holds
\* exactly that many points: the adds that follow wrap.
DownResizes == {3}

NextDown ==
  \/ \E shape \in DownShapes : AddShape(shape)
  \/ \E newCapacity \in DownResizes :
        size = newCapacity /\ capacity # newCapacity /\ Resize(newCapacity)
  \/ \E w \in DownWindows, maxPoints \in 1..MaxPoints :
        Downsample(w[1], w[2], maxPoints)

SpecDown == InitDown /\ [][NextDown]_vars

\* C1: in every reachable state 0 <= size <= capacity, and isFull() and
\* getStats().isFull are true exactly when size = capacity.
CapacityInvariant ==
  /\ 0 <= size
  /\ size <= capacity
  /\ isFull(self) = (size = capacity)
  /\ getStats(self).isFull = (size = capacity)

\* A state in which an overflowing add has just left the buffer full.
CapacityWitness ==
  /\ lastOp.op = "add"
  /\ lastOp.ret = TRUE
  /\ capacity >= 2
  /\ size = capacity

\* The size slots from tail on, oldest first (an empty slot shows as undefined).
LiveSlots(b) ==
  [i \in 1..b.size |-> b.buffer[JsMod(JsAdd(b.tail, i - 1), b.capacity)]]

Reverse(s) == [i \in 1..Len(s) |-> s[Len(s) + 1 - i]]

\* The last n elements of s.
LastN(s, n) == SubSeq(s, Len(s) - n + 1, Len(s))

Tokens(s) == [i \in 1..Len(s) |-> s[i].totalTokens]

\* C2: after capacity + k adds (k >= 1) on an empty buffer and nothing else,
\* the live points are the capacity most recently added ones in their order;
\* with capacity 3 and adds of 10, 20, 30, 40 getRecent(3) is 40, 30, 20 and
\* getOldest() is the point with 20.
OverwriteCorrectness ==
  run >= capacity + 1 =>
     /\ LiveSlots(self) = LastN(added, capacity)
     /\ getDataInTimeWindow(self, 0, MaxNow) = LastN(added, capacity)
     /\ getRecent(self, capacity) = Reverse(LastN(added, capacity))
     /\ capacity >= 1 => getOldest(self) = LastN(added, capacity)[1]
     /\ (capacity = 3 /\ run = 4 /\ Tokens(LastN(added, 4)) = <<10, 20, 30, 40>>)
           => /\ Tokens(getRecent(self, 3)) = <<40, 30, 20>>
              /\ getOldest(self).totalTokens = 20

\* Capacity 3 after the adds 10, 20, 30, 40.
OverwriteWitness ==
  /\ capacity = 3
  /\ run = 4
  /\ Tokens(added) = <<10, 20, 30, 40>>
  /\ lastOp.op = "add"
  /\ lastOp.ret = TRUE

\* The object state after the step.
selfNext == [buffer |-> buffer', head |-> head', tail |-> tail',
             size |-> size', capacity |-> capacity']

NonDecreasing(s) ==
  \A i \in 1..(Len(s) - 1) : s[i].timestamp <= s[i + 1].timestamp

\* C4: when points were added in non-decreasing timestamp order, after
\* cleanup(maxAgeMs) with maxAgeMs >= 0 no live point is older than maxAgeMs
\* (age = clock - timestamp, in the state the call returns in).
RetentionCorrectness ==
  (lastOp.op = "cleanup" /\ lastOp.maxAgeMs >= 0 /\ NonDecreasing(added)) =>
     \A i \in 1..size :
        LiveSlots(self)[i] # undefined =>
           now - LiveSlots(self)[i].timestamp <= lastOp.maxAgeMs

\* The points among the live slots, oldest first.
LivePoints(b) == getDataInTimeWindow(b, 0, MaxNow + DownCap)

\* C5: cleanup(maxAgeMs) evicts the points of a prefix of the live slots,
\* each older than the retention in force, and stops at the first point still
\* within retention: when points remain, the oldest of them is within
\* retention.  The returned count is the decrease of size.
CleanupSafety ==
  [][\A m \in CleanupArgs :
       (lastOp'.op = "cleanup" /\ lastOp'.maxAgeMs = m /\ Cleanup(m)) =>
          LET removed == lastOp'.ret
              retentionMs == retentionOf(m)
          IN /\ removed = size - size'
             /\ \A i \in 1..removed :
                   /\ LiveSlots(self)[i] # undefined
                   /\ now - LiveSlots(self)[i].timestamp > retentionMs
             /\ LiveSlots(selfNext) = SubSeq(LiveSlots(self), removed + 1, size)
             /\ LivePoints(selfNext) # <<>> =>
                   now - LivePoints(selfNext)[1].timestamp <= retentionMs]_vars

\* C6: resize(n) with n < size throws and changes nothing: capacity, size,
\* head, tail, the slots and the live sequence stay, no event is emitted.
ResizeRejected ==
  [][\A n \in 0..MaxCap :
       (lastOp'.op = "resize" /\ lastOp'.n = n /\ n < size /\ Resize(n)) =>
          /\ lastOp'.threw
          /\ UNCHANGED <<buffer, head, tail, size, capacity>>
          /\ LiveSlots(selfNext) = LiveSlots(self)
          /\ events' = <<>>]_vars

\* A resize below the live size has just thrown.
ResizeRejectedWitness ==
  /\ lastOp.op = "resize"
  /\ lastOp.threw
  /\ lastOp.n < size
  /\ lastOp.n >= 1

\* C7: resize(n) with n >= size succeeds, sets capacity to n and keeps the
\* full-range window query, getOldest() and getNewest() as they were.
ResizePreserves ==
  [][\A n \in 0..MaxCap :
       (lastOp'.op = "resize" /\ lastOp'.n = n /\ n >= size /\ Resize(n)) =>
          /\ ~lastOp'.threw
          /\ capacity' = n
          /\ size' = size
          /\ getDataInTimeWindow(selfNext, 0, MaxNow)
                = getDataInTimeWindow(self, 0, MaxNow)
          /\ getOldest(selfNext) = getOldest(self)
          /\ getNewest(selfNext) = getNewest(self)]_vars

\* A resize has just succeeded on a wrapped buffer (head < tail) holding at
\* least two points.
ResizePreservesWitness ==
  /\ lastOp.op = "resize"
  /\ ~lastOp.threw
  /\ lastOp.pre.head < lastOp.pre.tail
  /\ lastOp.pre.size >= 2
  /\ size = lastOp.pre.size
  /\ capacity = lastOp.n

\* C8: add returns true exactly when the buffer was full; then size stays
\* and the previous oldest point is no longer live; otherwise size grows by
\* one and every previously live point stays live.  add never throws.
AddContract ==
  [][\A ts \in 0..MaxNow :
       (lastOp'.op = "add" /\ Add(ts)) =>
          /\ ~lastOp'.threw
          /\ lastOp'.ret = (size = capacity)
          /\ IF size = capacity
             THEN /\ size' = size
                  /\ (size > 0 /\ getOldest(self) # null)
                        => ~IsLive(selfNext, getOldest(self))
             ELSE /\ size' = size + 1
                  /\ \A i \in 1..size :
                        LiveSlots(self)[i] # undefined
                           => IsLive(selfNext, LiveSlots(self)[i])]_vars

\* C3: the timestamps of the points handed to add, over all processEntries
\* calls so far, are non-decreasing.
OrderingGuarantee == NonDecreasing(added)

RECURSIVE SumOf(_, _)
\* The sum of field f over the points of s.
SumOf(s, f) == IF s = <<>> THEN 0 ELSE s[1][f] + SumOf(Tail(s), f)

SummedFields ==
  {"totalTokens", "inputTokens", "outputTokens", "cacheCreationTokens",
   "cacheReadTokens", "entryCount"}

\* The window of the last getDataWithResolution call, un-downsampled.
QueriedWindow ==
  getDataInTimeWindow(self, result.startTimeMs, result.endTimeMs)

\* C9: when maxPoints is smaller than the number of points of the window,
\* the sums of the six fields over getDataWithResolution(start, end,
\* maxPoints) equal those over getDataInTimeWindow(start, end).
SumConservation ==
  (lastOp.op = "getDataWithResolution"
     /\ result.maxPoints < Len(QueriedWindow)) =>
     \A f \in SummedFields : SumOf(result.points, f) = SumOf(QueriedWindow, f)

\* A query that folded at least two batches of several points each, over
\* points of both shapes.
SumConservationWitness ==
  /\ lastOp.op = "getDataWithResolution"
  /\ result.maxPoints < Len(QueriedWindow)
  /\ Len(result.points) >= 2
  /\ result.points[1].entryCount > QueriedWindow[1].entryCount
  /\ result.points[2].id = 0
  /\ \E i, j \in 1..Len(QueriedWindow) :
        QueriedWindow[i].totalTokens # QueriedWindow[j].totalTokens

\* C10 as stated: a window of 10 points downsampled with maxPoints = 3 gives
\* ceil(10/3) = 4 points whose totalTokens sum to that of the 10 points.
ScenarioCFourPoints ==
  (lastOp.op = "getDataWithResolution" /\ Len(QueriedWindow) = 10
     /\ result.maxPoints = 3) =>
     /\ Len(result.points) = 4
     /\ SumOf(result.points, "totalTokens") = SumOf(QueriedWindow, "totalTokens")

\* C10 amended: a window of 10 points downsampled with maxPoints = 3 is cut
\* into batches of ceil(10/3) = 4 points and gives 3 points, made of 4, 4 and
\* 2 points, whose totalTokens sum to that of the 10 points.
ScenarioCThreePoints ==
  (lastOp.op = "getDataWithResolution" /\ Len(QueriedWindow) = 10
     /\ result.maxPoints = 3) =>
     /\ Len(result.points) = 3
     /\ result.points[1] = aggregateBatch(SubSeq(QueriedWindow, 1, 4))
     /\ result.points[2] = aggregateBatch(SubSeq(QueriedWindow, 5, 8))
     /\ result.points[3] = aggregateBatch(SubSeq(QueriedWindow, 9, 10))
     /\ SumOf(result.points, "totalTokens") = SumOf(QueriedWindow, "totalTokens")

\* A window of 10 points has just been downsampled with maxPoints = 3.
ScenarioCWitness ==
  /\ lastOp.op = "getDataWithResolution"
  /\ Len(QueriedWindow) = 10
  /\ result.maxPoints = 3
  /\ Len(result.points) = 3

\* The points among the live slots whose timestamp lies in [startTimeMs,
\* endTimeMs], oldest slot first.
LiveInWindow(b, startTimeMs, endTimeMs) ==
  SelectSeq(LiveSlots(b),
            LAMBDA p : /\ p # undefined
                       /\ p.timestamp >= startTimeMs
                       /\ p.timestamp <= endTimeMs)

\* C11: when the points were added in non-decreasing timestamp order,
\* getDataInTimeWindow(start, end) returns the live points with
\* start <= timestamp <= end, each once, none that is not live, and in
\* non-decreasing timestamp order.
WindowQuery ==
  NonDecreasing(added) =>
     \A startTimeMs, endTimeMs \in 0..MaxNow :
        LET w == getDataInTimeWindow(self, startTimeMs, endTimeMs)
        IN /\ w = LiveInWindow(self, startTimeMs, endTimeMs)
           /\ \A i, j \in 1..Len(w) : i # j => w[i].id # w[j].id
           /\ NonDecreasing(w)

\* ---------------------------------------------------------------- bucketing
\* The three records of the bucketing scenario: t = 500, 59000 and 61000 with
\* totalTokens 5, 7 and 9.
BucketEntries ==
  { Entry(500, "m1", "p1", 2, 3, 0, 0),
    Entry(59000, "m2", "p1", 3, 2, 1, 1),
    Entry(61000, "m1", "p2", 4, 5, 0, 0) }

\* The batches of SpecBucket: the sequences of distinct records of
\* BucketEntries, in every order.
BucketBatches ==
  {entries \in UNION {[1..n -> BucketEntries] : n \in 0..Cardinality(BucketEntries)} :
     \A i, j \in 1..Len(entries) : i # j => entries[i] # entries[j]}

\* An aggregator whose resolution is one minute.
InitBucket ==
  /\ InitBuffer([NewConfig(AggCap, 0) EXCEPT !.resolutionMs = 60000])
  /\ config = [NewConfig(AggCap, 0) EXCEPT !.resolutionMs = 60000]
  /\ listeners = TRUE
  /\ aggregationTimer = 0
  /\ activeTimers = {}
  /\ timersCreated = 0
  /\ manager = "none"
  /\ isEnabled = TRUE
  /\ now = 0
  /\ added = <<>>
  /\ events = <<>>
  /\ lastOp = [op |-> "new", point |-> undefined, n |-> 0, maxAgeMs |-> NoArg,
               ret |-> 0, threw |-> FALSE,
               pre |-> noCursors]
  /\ run = 0
  /\ result = <<>>

NextBucket ==
  \/ \E entries \in BucketBatches : ProcessEntries(entries)
  \/ AggClear

SpecBucket == InitBucket /\ [][NextBucket]_vars

\* The indices of the entries of a batch that fall in the interval of length
\* resolutionMs that starts at start.
MembersOf(entries, start, resolutionMs) ==
  {i \in 1..Len(entries) :
     /\ start <= entries[i].timestamp
     /\ entries[i].timestamp < start + resolutionMs}

RECURSIVE SumOver(_, _, _)
\* The sum of field f over the entries whose indices are in members.
SumOver(entries, members, f) ==
  IF members = {} THEN 0
  ELSE LET i == CHOOSE k \in members : TRUE
       IN entries[i][f] + SumOver(entries, members \ {i}, f)

EntrySums ==
  {"inputTokens", "outputTokens", "cacheCreationTokens", "cacheReadTokens",
   "totalTokens", "costUSD"}

\* C12: one processEntries call adds one point per distinct bucket start
\* floor(timestampMs / resolutionMs) * resolutionMs of the batch; the point's
\* timestamp is the bucket start, its entryCount the number of entries of the
\* bucket and its token fields their sums.  With resolution 60000 and entries
\* at 500, 59000, 61000 of 5, 7, 9 tokens: a point at 0 with 12 tokens and
\* entryCount 2 and a point at 60000 with 9 tokens and entryCount 1.
Bucketing ==
  [][\A entries \in BucketBatches :
       (lastOp'.op = "processEntries" /\ lastOp'.n = Len(entries)
          /\ ProcessEntries(entries)) =>
          LET res == config.resolutionMs
              new == SubSeq(added', Len(added) + 1, Len(added'))
          IN /\ \A i, j \in 1..Len(new) :
                   i # j => new[i].timestamp # new[j].timestamp
             /\ \A i \in 1..Len(entries) :
                   \E k \in 1..Len(new) :
                      i \in MembersOf(entries, new[k].timestamp, res)
             /\ \A k \in 1..Len(new) :
                   LET members == MembersOf(entries, new[k].timestamp, res)
                   IN /\ new[k].timestamp % res = 0
                      /\ members # {}
                      /\ new[k].entryCount = Cardinality(members)
                      /\ \A f \in EntrySums :
                            new[k][f] = SumOver(entries, members, f)
             /\ Len(entries) = 3 =>
                   /\ Len(new) = 2
                   /\ \E k \in 1..2 : /\ new[k].timestamp = 0
                                      /\ new[k].totalTokens = 12
                                      /\ new[k].entryCount = 2
                   /\ \E k \in 1..2 : /\ new[k].timestamp = 60000
                                      /\ new[k].totalTokens = 9
                                      /\ new[k].entryCount = 1]_vars

\* The three records have just been processed in one call, the one at 500
\* first.
BucketingWitness ==
  /\ lastOp.op = "processEntries"
  /\ lastOp.n = 3
  /\ Len(added) = 2
  /\ added[1].timestamp = 0
  /\ added[1].totalTokens = 12
  /\ added[1].entryCount = 2
  /\ added[2].timestamp = 60000
  /\ added[2].totalTokens = 9
  /\ added[2].entryCount = 1

\* Entries of two intervals of resolutionMs 2; one of them has a totalTokens
\* (its own field of NormalizedEntry) that is not the sum of its four token
\* counts, and one has a model name that every plain object inherits.
BreakdownEntries ==
  {Entry(0, "m1", "p1", 1, 2, 0, 0), Entry(1, "m3", "p1", 1, 1, 0, 0),
   [Entry(2, "m2", "p2", 2, 1, 1, 0) EXCEPT !.totalTokens = 5],
   Entry(1, "constructor", "p2", 1, 1, 0, 0)}

BreakdownBatches ==
  {<<>>} \cup {<<e>> : e \in BreakdownEntries}
         \cup {p \in BreakdownEntries \X BreakdownEntries :
                  p[1].timestamp < p[2].timestamp}

\* the windows and resolutions asked of getDataWithResolution
BreakdownQueries == {<<0, 2, 1>>, <<0, 2, 2>>}

InitBreakdown ==
  /\ InitBuffer(NewConfig(AggCap, 0))
  /\ config = NewConfig(AggCap, 0)
  /\ listeners = TRUE
  /\ aggregationTimer = 0
  /\ activeTimers = {}
  /\ timersCreated = 0
  /\ manager = "none"
  /\ isEnabled = TRUE
  /\ now = 0
  /\ added = <<>>
  /\ events = <<>>
  /\ lastOp = [op |-> "new", point |-> undefined, n |-> 0, maxAgeMs |-> NoArg,
               ret |-> 0, threw |-> FALSE,
               pre |-> noCursors]
  /\ run = 0
  /\ result = <<>>

NextBreakdown ==
  \/ \E entries \in BreakdownBatches : ProcessEntries(entries)
  \/ \E q \in BreakdownQueries : Downsample(q[1], q[2], q[3])
  \/ AggClear

SpecBreakdown == InitBreakdown /\ [][NextBreakdown]_vars

\* Object.values(breakdown).reduce((s, u) => s + u[f], 0) over the keys left
RECURSIVE BreakdownSum(_, _, _)
BreakdownSum(breakdown, keys, f) ==
  IF keys = {} THEN 0
  ELSE LET k == CHOOSE x \in keys : TRUE
       IN breakdown[k][f] + BreakdownSum(breakdown, keys \ {k}, f)

BreakdownConsistent(point) ==
  /\ BreakdownSum(point.modelBreakdown, DOMAIN point.modelBreakdown,
                  "totalTokens") = point.totalTokens
  /\ BreakdownSum(point.providerBreakdown, DOMAIN point.providerBreakdown,
                  "totalTokens") = point.totalTokens
  /\ BreakdownSum(point.modelBreakdown, DOMAIN point.modelBreakdown,
                  "entryCount") = point.entryCount
  /\ BreakdownSum(point.providerBreakdown, DOMAIN point.providerBreakdown,
                  "entryCount") = point.entryCount

\* C13: in every point produced by processEntries, and in every point that
\* getDataWithResolution returns over such points, the totalTokens of the
\* model breakdown sum to the point's totalTokens, so do those of the
\* provider breakdown, and the entryCounts of either sum to its entryCount.
BreakdownConsistency ==
  /\ \A i \in 1..Len(added) : BreakdownConsistent(added[i])
  /\ result # <<>> =>
       \A i \in 1..Len(result.points) : BreakdownConsistent(result.points[i])

\* processEntries has built a point of two models, and the last query
\* returned one synthetic point merged from two points, with three models
\* and two providers.
BreakdownWitness ==
  /\ \E i \in 1..Len(added) :
        /\ added[i].entryCount = 2
        /\ DOMAIN added[i].modelBreakdown = {"m1", "m3"}
  /\ result # <<>>
  /\ Len(result.points) = 1
  /\ result.points[1].id = 0
  /\ result.points[1].entryCount = 3
  /\ DOMAIN result.points[1].modelBreakdown = {"m1", "m2", "m3"}
  /\ DOMAIN result.points[1].providerBreakdown = {"p1", "p2"}

TokenSum(point) ==
  point.inputTokens + point.outputTokens + point.cacheCreationTokens
    + point.cacheReadTokens

LivePointSet(b) ==
  {LiveSlots(b)[i] : i \in 1..b.size} \ {undefined}

\* C15: in every state reached by add, cleanup, clear and resize, getRecent(n)
\* returns min(n, size) points, all of them live, the later added first, and
\* no live point it leaves out was added after one it returns.
RecentQuery ==
  \A n \in 0..(MaxCap + 1) :
     LET r == getRecent(self, n)
         returned == {r[i] : i \in 1..Len(r)}
     IN /\ Len(r) = Min(n, size)
        /\ returned \subseteq LivePointSet(self)
        /\ \A i, j \in 1..Len(r) : i < j => r[i].id > r[j].id
        /\ \A p \in LivePointSet(self) \ returned :
              \A q \in returned : p.id < q.id

\* The batch of SpecCfg: one entry at time 0.
CfgBatches == {<<Entry(0, "m1", "p1", 1, 2, 0, 0)>>}

\* The partial configurations of SpecCfg; a bufferSize of 0 is falsy.
CfgUpdates ==
  {[bufferSize |-> n] : n \in 0..(AggCap + 1)}
  \cup {[maxRetentionMs |-> MaxRetention]}

\* An aggregator built with maxRetentionMs 0, then fed, reconfigured and
\* swept while the clock runs.
InitCfg == InitAgg

NextCfg ==
  \/ \E entries \in CfgBatches : ProcessEntries(entries)
  \/ \E newConfig \in CfgUpdates : UpdateConfig(newConfig)
  \/ Initialize
  \/ Sweep
  \/ Tick

SpecCfg == InitCfg /\ [][NextCfg]_vars

\* C16: a sweep of the timer evicts with the maxRetentionMs of the
\* aggregator's configuration at the time of the sweep: it leaves the buffer
\* as the eviction loop with cutoff now - config.maxRetentionMs does.
SweepUsesCurrentRetention ==
  [][(lastOp'.op = "sweep" /\ Sweep) =>
        selfNext = cleanupLoop(self, now - config.maxRetentionMs, 0).b]_vars

\* C17: updateConfig with a bufferSize that differs from config.bufferSize,
\* when it returns normally, has resized the buffer: capacity is the new
\* config.bufferSize and the live points are the same, in the same order.
UpdateConfigResizes ==
  [][\A newConfig \in CfgUpdates :
       (/\ lastOp'.op = "updateConfig"
        /\ "bufferSize" \in DOMAIN newConfig
        /\ lastOp'.n = newConfig.bufferSize
        /\ newConfig.bufferSize # config.bufferSize
        /\ UpdateConfig(newConfig)
        /\ ~lastOp'.threw) =>
          /\ config'.bufferSize = newConfig.bufferSize
          /\ capacity' = config'.bufferSize
          /\ size' = size
          /\ LiveSlots(selfNext) = LiveSlots(self)
          /\ getRecent(selfNext, size) = getRecent(self, size)]_vars

\* updateConfig has just returned normally after changing the capacity of a
\* buffer that held a point and whose tail was not slot 0.
UpdateConfigResizesWitness ==
  /\ lastOp.op = "updateConfig"
  /\ ~lastOp.threw
  /\ lastOp.n = capacity
  /\ lastOp.pre.capacity # capacity
  /\ lastOp.pre.tail > 0
  /\ lastOp.pre.size >= 1
  /\ size = lastOp.pre.size
  /\ config.bufferSize = capacity

\* ------------------------------------------------ TimelineAggregator, queries
\* A JavaScript number that need not be an integer is kept as the reduced
\* fraction num / den with den > 0 (the double of the code is the nearest
\* one to it, or one ulp off after two roundings).
RECURSIVE Gcd(_, _)
Gcd(a, b) == IF b = 0 THEN a ELSE Gcd(b, a % b)

Abs(x) == IF x < 0 THEN -x ELSE x

Ratio(n, d) ==
  LET g == Gcd(Abs(n), d) IN [num |-> n \div g, den |-> d \div g]

\* Math.round(x) for the exact x = r.num / r.den: floor(x + 0.5)
Round(r) == (2 * r.num + r.den) \div (2 * r.den)

\* getTimelineData(timeWindowMs, maxPoints): the window ends at Date.now();
\* maxPoints || this.config.maxDataPoints (config.maxDataPoints >= 1)
getTimelineData(b, timeWindowMs, maxPoints) ==
  LET endTime == now
      startTime == endTime - timeWindowMs
      actualMaxPoints == IF maxPoints = NoArg \/ maxPoints = 0
                         THEN config.maxDataPoints ELSE maxPoints
  IN getDataWithResolution(b, startTime, endTime, actualMaxPoints)

\* PROVIDER_COLORS
PROVIDER_COLORS ==
  [providerId \in {"claude-code", "cursor", "github-copilot", "openai",
                   "anthropic", "google", "microsoft", "default"} |->
     CASE providerId = "claude-code" -> "#FF6B35"
       [] providerId = "cursor" -> "#0066CC"
       [] providerId = "github-copilot" -> "#24292E"
       [] providerId = "openai" -> "#10A37F"
       [] providerId = "anthropic" -> "#D97757"
       [] providerId = "google" -> "#4285F4"
       [] providerId = "microsoft" -> "#00BCF2"
       [] OTHER -> "#6B7280"]

\* getAggregatedTimelineData(timeWindowMs, maxPoints)
getAggregatedTimelineData(b, timeWindowMs, maxPoints) ==
  LET dataPoints == getTimelineData(b, timeWindowMs, maxPoints)
  IN [i \in 1..Len(dataPoints) |->
        LET point == dataPoints[i]
        IN [timestamp |-> point.timestamp,
            totalTokens |-> point.totalTokens,
            totalCostUSD |-> point.costUSD,
            entryCount |-> point.entryCount,
            providerData |->
              [providerId \in DOMAIN point.providerBreakdown |->
                 [tokens |-> point.providerBreakdown[providerId].totalTokens,
                  cost |-> point.providerBreakdown[providerId].costUSD,
                  color |-> IF providerId \in DOMAIN PROVIDER_COLORS
                            THEN PROVIDER_COLORS[providerId]
                            ELSE PROVIDER_COLORS["default"]]]]]

\* a result for no data points that still predicts when prediction is on
neutralAnalyticsPredicting ==
  [peakUsageTime |-> null, averageUsageRate |-> Ratio(0, 1),
   growthRate |-> Ratio(0, 1),
   prediction |-> IF config.enablePrediction
                  THEN [nextHourTokens |-> 0, nextDayTokens |-> 0,
                        confidence |-> Ratio(1, 1)]
                  ELSE null,
   trends |-> [direction |-> "stable", strength |-> Ratio(0, 1)]]

\* what getTimelineAnalytics returns for no data points
neutralAnalytics ==
  [peakUsageTime |-> null, averageUsageRate |-> Ratio(0, 1),
   growthRate |-> Ratio(0, 1), prediction |-> null,
   trends |-> [direction |-> "stable", strength |-> Ratio(0, 1)]]

\* a reduction that moves to every point at least as large: the last maximum
RECURSIVE peakFromLast(_, _, _)
peakFromLast(dataPoints, i, max) ==
  IF i > Len(dataPoints) THEN max
  ELSE peakFromLast(dataPoints, i + 1,
                    IF dataPoints[i].totalTokens >= max.totalTokens
                    THEN dataPoints[i] ELSE max)

\* dataPoints.reduce((max, point) => point.totalTokens > max.totalTokens ?
\* point : max, dataPoints[0]) from index i on
RECURSIVE peakFrom(_, _, _)
peakFrom(dataPoints, i, max) ==
  IF i > Len(dataPoints) THEN max
  ELSE peakFrom(dataPoints, i + 1,
                IF dataPoints[i].totalTokens > max.totalTokens
                THEN dataPoints[i] ELSE max)

\* points.reduce((sum, point) => sum + point.totalTokens, 0)
RECURSIVE sumTokens(_)
sumTokens(points) ==
  IF points = <<>> THEN 0
  ELSE points[1].totalTokens + sumTokens(Tail(points))

\* the index the series is split at when it is split after the middle
midpointCeil(length) == (length + 1) \div 2

\* midpoint = Math.floor(dataPoints.length / 2)
midpointOf(length) == length \div 2

\* firstHalfTokens > 0 ? ((second - first) / first) * 100 : 0
growthRateOf(firstHalfTokens, secondHalfTokens) ==
  IF firstHalfTokens > 0
  THEN Ratio((secondHalfTokens - firstHalfTokens) * 100, firstHalfTokens)
  ELSE Ratio(0, 1)

\* a classification whose threshold of 5 belongs to the moving directions
trendsOfInclusive(growthRate) ==
  IF Abs(growthRate.num) >= 5 * growthRate.den
  THEN [direction |-> IF growthRate.num > 0 THEN "increasing"
                      ELSE "decreasing",
        strength |-> IF Abs(growthRate.num) >= 100 * growthRate.den
                     THEN Ratio(1, 1)
                     ELSE Ratio(Abs(growthRate.num), 100 * growthRate.den)]
  ELSE [direction |-> "stable", strength |-> Ratio(0, 1)]

\* direction and strength: Math.abs(growthRate) > 5, Math.min(|g| / 100, 1)
trendsOf(growthRate) ==
  IF Abs(growthRate.num) > 5 * growthRate.den
  THEN [direction |-> IF growthRate.num > 0 THEN "increasing"
                      ELSE "decreasing",
        strength |-> IF Abs(growthRate.num) >= 100 * growthRate.den
                     THEN Ratio(1, 1)
                     ELSE Ratio(Abs(growthRate.num), 100 * growthRate.den)]
  ELSE [direction |-> "stable", strength |-> Ratio(0, 1)]

\* ------------------------------------------------ IEEE 754 double arithmetic
\* A natural number of any size: its digits to the base LimbBase, lowest
\* first, without a leading zero digit (0 is the empty sequence).
LimbBase == 32768

RECURSIVE BigOf(_)
BigOf(n) == IF n = 0 THEN <<>> ELSE <<n % LimbBase>> \o BigOf(n \div LimbBase)

RECURSIVE BigToInt(_)
BigToInt(a) == IF a = <<>> THEN 0 ELSE a[1] + LimbBase * BigToInt(Tail(a))

\* a * k + c for digits k and c
RECURSIVE BigMulAdd(_, _, _)
BigMulAdd(a, k, c) ==
  IF a = <<>> THEN BigOf(c)
  ELSE LET t == a[1] * k + c
       IN LET rest == BigMulAdd(Tail(a), k, t \div LimbBase)
          IN IF rest = <<>> /\ t % LimbBase = 0 THEN <<>>
             ELSE <<t % LimbBase>> \o rest

RECURSIVE BigLessFrom(_, _, _)
BigLessFrom(a, b, i) ==
  IF i = 0 THEN FALSE
  ELSE IF a[i] # b[i] THEN a[i] < b[i]
  ELSE BigLessFrom(a, b, i - 1)

BigLess(a, b) ==
  IF Len(a) # Len(b) THEN Len(a) < Len(b) ELSE BigLessFrom(a, b, Len(a))

\* a - b for a >= b
RECURSIVE BigSubFrom(_, _, _)
BigSubFrom(a, b, borrow) ==
  IF a = <<>> THEN <<>>
  ELSE LET bi == IF b = <<>> THEN 0 ELSE b[1]
           t == a[1] - bi - borrow
           rest == BigSubFrom(Tail(a), IF b = <<>> THEN <<>> ELSE Tail(b),
                              IF t < 0 THEN 1 ELSE 0)
           digit == IF t < 0 THEN t + LimbBase ELSE t
       IN IF rest = <<>> /\ digit = 0 THEN <<>> ELSE <<digit>> \o rest

BigSub(a, b) == BigSubFrom(a, b, 0)

RECURSIVE BitLength(_)
BitLength(n) == IF n = 0 THEN 0 ELSE 1 + BitLength(n \div 2)

BigBitLength(a) ==
  IF a = <<>> THEN 0 ELSE 15 * (Len(a) - 1) + BitLength(a[Len(a)])

RECURSIVE Pow2(_)
Pow2(k) == IF k = 0 THEN 1 ELSE 2 * Pow2(k - 1)

\* bit i of a, bit 0 the lowest
BigBit(a, i) ==
  IF i \div 15 + 1 > Len(a) THEN 0
  ELSE (a[i \div 15 + 1] \div Pow2(i % 15)) % 2

\* a * 2^k for a > 0: whole digits first, then the bits left over
BigShiftLeft(a, k) ==
  [i \in 1..(k \div 15) |-> 0] \o BigMulAdd(a, Pow2(k % 15), 0)

\* Long division by d, one bit of the digit at a time from bit i down: q and
\* r are the quotient and the remainder of the digits above.
RECURSIVE BigDivBits(_, _, _, _, _)
BigDivBits(digit, d, i, q, r) ==
  IF i < 0 THEN [q |-> q, r |-> r]
  ELSE LET r2 == BigMulAdd(r, 2, (digit \div Pow2(i)) % 2)
       IN IF BigLess(r2, d)
          THEN BigDivBits(digit, d, i - 1, BigMulAdd(q, 2, 0), r2)
          ELSE BigDivBits(digit, d, i - 1, BigMulAdd(q, 2, 1), BigSub(r2, d))

\* Quotient and remainder of the digits j and above of n by d.
RECURSIVE BigDivFrom(_, _, _)
BigDivFrom(n, d, j) ==
  IF j > Len(n) THEN [q |-> <<>>, r |-> <<>>]
  ELSE LET above == BigDivFrom(n, d, j + 1)
       IN BigDivBits(n[j], d, 14, above.q, above.r)

BigDivMod(n, d) == BigDivFrom(n, d, 1)

\* A positive double is the pair of m and e with the value m * 2^e.
\* The double nearest to n / d * 2^e (n, d > 0): the quotient to 53
\* significant bits, a tie going to the even one.
NearestDouble(n, d, e) ==
  LET gap == 55 + BigBitLength(d) - BigBitLength(n)
      s == IF gap > 0 THEN gap ELSE 0
      whole == BigDivMod(BigShiftLeft(n, s), d)
      drop == BigBitLength(whole.q) - 53
      split == BigDivMod(whole.q, BigShiftLeft(<<1>>, drop))
      half == BigShiftLeft(<<1>>, drop - 1)
      up == \/ BigLess(half, split.r)
            \/ /\ split.r = half
               /\ (whole.r # <<>> \/ BigBit(split.q, 0) = 1)
  IN [m |-> IF up THEN BigMulAdd(split.q, 1, 1) ELSE split.q,
      e |-> e - s + drop]

\* Math.round(x) for a positive double x: floor(x + 0.5)
MathRound(x) ==
  IF x.e >= 0 THEN BigToInt(BigShiftLeft(x.m, x.e))
  ELSE LET split == BigDivMod(x.m, BigShiftLeft(<<1>>, -x.e))
       IN BigToInt(split.q)
            + (IF BigLess(split.r, BigShiftLeft(<<1>>, -x.e - 1)) THEN 0 ELSE 1)

\* x * k for a positive double x and a whole number k below LimbBase
DoubleTimes(x, k) == NearestDouble(BigMulAdd(x.m, k, 0), <<1>>, x.e)

\* totalTokens / (timeSpanMs / (60 * 1000)) in doubles, both above 0
usageRateDouble(totalTokens, timeSpanMs) ==
  LET timeSpanMinutes == NearestDouble(BigOf(timeSpanMs), BigOf(60 * 1000), 0)
  IN NearestDouble(BigOf(totalTokens), timeSpanMinutes.m, -timeSpanMinutes.e)

\* the prediction for length data points: Math.round of the rate per hour
\* and per day, confidence Math.max(0.1, 1 - length / maxDataPoints).
\* The rate is a double: it differs from the exact quotient by a few units
\* of 2^-53 of it, which changes Math.round only where the exact product
\* lies half-way between two whole numbers; there the doubles decide.
predictionOf(totalTokens, timeSpanMs, length) ==
  LET averageUsageRate == IF timeSpanMs > 0
                          THEN Ratio(totalTokens * 60000, timeSpanMs)
                          ELSE Ratio(0, 1)
      perHour == Ratio(averageUsageRate.num * 60, averageUsageRate.den)
      perDay == Ratio(averageUsageRate.num * 60 * 24, averageUsageRate.den)
      hourDouble == DoubleTimes(usageRateDouble(totalTokens, timeSpanMs), 60)
  IN
  [nextHourTokens |->
     IF perHour.den = 2 THEN MathRound(hourDouble) ELSE Round(perHour),
   nextDayTokens |->
     IF perDay.den = 2 THEN MathRound(DoubleTimes(hourDouble, 24))
     ELSE Round(perDay),
   confidence |->
     IF 10 * (config.maxDataPoints - length) > config.maxDataPoints
     THEN Ratio(config.maxDataPoints - length, config.maxDataPoints)
     ELSE Ratio(1, 10)]

\* the analytics of a series of data points
analyticsOf(dataPoints) ==
  IF Len(dataPoints) = 0 THEN neutralAnalytics
  ELSE
    LET peakPoint == peakFrom(dataPoints, 1, dataPoints[1])
        totalTokens == sumTokens(dataPoints)
        timeSpanMs == dataPoints[Len(dataPoints)].timestamp
                        - dataPoints[1].timestamp
        \* timeSpanMinutes = timeSpanMs / 60000
        averageUsageRate == IF timeSpanMs > 0
                            THEN Ratio(totalTokens * 60000, timeSpanMs)
                            ELSE Ratio(0, 1)
        midpoint == midpointOf(Len(dataPoints))
        firstHalfTokens == sumTokens(SubSeq(dataPoints, 1, midpoint))
        secondHalfTokens ==
          sumTokens(SubSeq(dataPoints, midpoint + 1, Len(dataPoints)))
        growthRate == growthRateOf(firstHalfTokens, secondHalfTokens)
    IN [peakUsageTime |-> peakPoint.timestamp,
        averageUsageRate |-> averageUsageRate,
        growthRate |-> growthRate,
        prediction |-> IF config.enablePrediction
                       THEN predictionOf(totalTokens, timeSpanMs, Len(dataPoints))
                       ELSE null,
        trends |-> trendsOf(growthRate)]

\* getTimelineAnalytics(timeWindowMs)
getTimelineAnalytics(b, timeWindowMs) ==
  analyticsOf(getTimelineData(b, timeWindowMs, NoArg))

\* One point against a filter: providers and models are the sets of the
\* names listed; minTokens and maxCost are numbers or missing (NoArg), and 0
\* is falsy like a missing one; startDate and endDate are times or missing
\* (a Date is truthy whatever its time).
passesFilter(point, filter) ==
  /\ filter.providers # {} =>
        DOMAIN point.providerBreakdown \cap filter.providers # {}
  /\ filter.models # {} =>
        DOMAIN point.modelBreakdown \cap filter.models # {}
  /\ ~(/\ filter.minTokens # NoArg
       /\ filter.minTokens # 0
       /\ point.totalTokens < filter.minTokens)
  /\ ~(/\ filter.maxCost # NoArg
       /\ filter.maxCost # 0
       /\ point.costUSD > filter.maxCost)
  /\ ~(filter.startDate # NoArg /\ point.timestamp < filter.startDate)
  /\ ~(filter.endDate # NoArg /\ point.timestamp > filter.endDate)

\* getFilteredTimelineData(timeWindowMs, filter)
getFilteredTimelineData(b, timeWindowMs, filter) ==
  SelectSeq(getTimelineData(b, timeWindowMs, NoArg),
            LAMBDA point : passesFilter(point, filter))

\* ------------------------------------------------------------ TimelineManager
\* TRUE when the manager answers a query itself: only the TimelineManager of
\* timeline-manager.ts tests isEnabled in its queries.
answersDisabled == manager = "TimelineManager" /\ ~isEnabled

\* TimelineManager.getTimelineData, or the aggregator's when there is no
\* manager
managerGetTimelineData(timeWindowMs, maxPoints) ==
  IF answersDisabled THEN <<>>
  ELSE getTimelineData(self, timeWindowMs, maxPoints)

managerGetAggregatedTimelineData(timeWindowMs, maxPoints) ==
  IF answersDisabled THEN <<>>
  ELSE getAggregatedTimelineData(self, timeWindowMs, maxPoints)

managerGetTimelineAnalytics(timeWindowMs) ==
  IF answersDisabled
  THEN [peakUsageTime |-> null, averageUsageRate |-> Ratio(0, 1),
        growthRate |-> Ratio(0, 1), prediction |-> null,
        trends |-> [direction |-> "stable", strength |-> Ratio(0, 1)]]
  ELSE getTimelineAnalytics(self, timeWindowMs)

managerGetFilteredTimelineData(timeWindowMs, filter) ==
  IF answersDisabled THEN <<>>
  ELSE getFilteredTimelineData(self, timeWindowMs, filter)

\* A query: what was asked and what was returned are kept in result.
Query(name, timeWindowMs, value) ==
  /\ result' = [query |-> name, timeWindowMs |-> timeWindowMs,
                value |-> value]
  /\ lastOp' = AggOp(name)
  /\ events' = <<>>
  /\ UNCHANGED <<bufVars, aggVars, now, added, run>>

GetTimelineData(timeWindowMs, maxPoints) ==
  Query("getTimelineData", timeWindowMs,
        managerGetTimelineData(timeWindowMs, maxPoints))

GetAggregatedTimelineData(timeWindowMs, maxPoints) ==
  Query("getAggregatedTimelineData", timeWindowMs,
        managerGetAggregatedTimelineData(timeWindowMs, maxPoints))

GetTimelineAnalytics(timeWindowMs) ==
  Query("getTimelineAnalytics", timeWindowMs,
        managerGetTimelineAnalytics(timeWindowMs))

GetFilteredTimelineData(timeWindowMs, filter) ==
  Query("getFilteredTimelineData", timeWindowMs,
        managerGetFilteredTimelineData(timeWindowMs, filter))

\* TimelineManager.processEntries(entries): nothing while disabled or for no
\* entries, else the aggregator's processEntries
ManagerProcessEntries(entries) ==
  /\ manager # "none"
  /\ IF isEnabled /\ Len(entries) # 0
     THEN ProcessEntries(entries)
     ELSE /\ lastOp' = [AggOp("processEntries") EXCEPT !.n = Len(entries)]
          /\ events' = <<>>
          /\ UNCHANGED <<bufVars, aggVars, now, added, run, result>>

\* TimelineManager.initialize(): the aggregator's initialize
ManagerInitialize ==
  /\ manager # "none"
  /\ Initialize

\* TimelineManager.updateConfig(newConfig): the manager's config is merged as
\* the aggregator's is (config stands for both), then the aggregator's
\* updateConfig, whose 'config-updated' is forwarded; the manager of
\* timeline-manager.ts then emits a 'config-updated' of its own.
ManagerUpdateConfig(newConfig) ==
  /\ manager # "none"
  /\ UpdateConfigThen(newConfig,
                      IF manager = "TimelineManager"
                      THEN <<Event("config-updated")>> ELSE <<>>)

\* TimelineManager.clear(): the aggregator's clear; the manager of
\* timeline-manager.ts then emits 'timeline-cleared'.
ManagerClear ==
  /\ manager # "none"
  /\ AggClearThen(IF manager = "TimelineManager"
                  THEN <<Event("timeline-cleared")>> ELSE <<>>)

\* TimelineManager.cleanup(): the aggregator's cleanup (the manager of
\* timeline-manager.ts also drops the listeners others registered on it).
ManagerCleanup ==
  /\ manager # "none"
  /\ AggCleanup

\* a disabling that leaves the timeline data in place
disableKeepsData(b) ==
  [b |-> b, ret |-> 0, threw |-> FALSE, events |-> <<>>]

\* if (!enabled) this.aggregator.clear()
disableClears(b) == clear(b)

\* TimelineManager.setEnabled(enabled): on a change, set the flag, clear the
\* aggregator when disabling, emit 'enabled-changed'
SetEnabled(enabled) ==
  /\ manager # "none"
  /\ IF isEnabled # enabled
     THEN LET r == IF enabled
                   THEN [b |-> self, ret |-> 0, threw |-> FALSE,
                         events |-> <<>>]
                   ELSE disableClears(self)
          IN /\ isEnabled' = enabled
             /\ Apply([r EXCEPT !.events = @ \o <<Event("enabled-changed")>>],
                      [AggOp("setEnabled") EXCEPT !.n = IF enabled THEN 1 ELSE 0])
     ELSE /\ lastOp' = [AggOp("setEnabled") EXCEPT
                          !.n = IF enabled THEN 1 ELSE 0]
          /\ events' = <<>>
          /\ UNCHANGED <<buffer, head, tail, size, capacity, run, isEnabled>>
  /\ UNCHANGED <<bufferConfig, listeners, config, aggregationTimer,
                 activeTimers, timersCreated, manager, now, added, result>>

\* The batches of SpecMgr and of SpecAnalytics: none, or one entry with one
\* of the token counts of tokens, whose time is the number of points added so
\* far (each entry is a point of its own at resolutionMs 1).
BatchesOf(tokens) ==
  {<<>>} \cup {<<Entry(Len(added), "m1", "p1", t, 0, 0, 0)>> : t \in tokens}

MgrBatches == BatchesOf({2})

AnalyticsBatches == BatchesOf({0, 1, 2})

\* the windows asked for: none of the points, some, all
AnalyticsWindows == 0..AggMaxAdds

\* The buffer sizes handed to the manager's updateConfig: one below the
\* points that may be held, and the size the manager was built with.
MgrUpdates == {[bufferSize |-> b] : b \in {AggMaxAdds - 1, MaxCap + 1}}

MgrFilters ==
  {[providers |-> {}, models |-> {}, minTokens |-> m, maxCost |-> NoArg,
    startDate |-> NoArg, endDate |-> NoArg] : m \in {NoArg, 2}}

\* The configuration of SpecMgr and of SpecAnalytics: nothing is evicted or
\* overwritten.
MgrConfig(enablePrediction, maxDataPoints) ==
  [NewConfig(MaxCap + 1, 2 * AggMaxAdds) EXCEPT
     !.resolutionMs = 1, !.enablePrediction = enablePrediction,
     !.maxDataPoints = maxDataPoints]

\* An aggregator built with cfg inside the manager mgr ("none": on its own),
\* at a time when all its entries are past.
InitManaged(mgr, cfg) ==
  /\ InitBuffer(cfg)
  /\ config = cfg
  /\ listeners = TRUE
  /\ aggregationTimer = 0
  /\ activeTimers = {}
  /\ timersCreated = 0
  /\ manager = mgr
  /\ isEnabled = TRUE
  /\ now = AggMaxAdds
  /\ added = <<>>
  /\ events = <<>>
  /\ lastOp = [op |-> "new", point |-> undefined, n |-> 0,
               maxAgeMs |-> NoArg, ret |-> 0, threw |-> FALSE,
               pre |-> noCursors]
  /\ run = 0
  /\ result = <<>>

\* One of the two managers, initialized, fed, reconfigured, cleared, switched
\* off and on, queried and cleaned up.
InitMgr ==
  \E mgr \in {"TimelineManager", "index"} :
     InitManaged(mgr, MgrConfig(TRUE, MaxPoints))

NextMgr ==
  \/ ManagerInitialize
  \/ Sweep
  \/ \E entries \in MgrBatches : ManagerProcessEntries(entries)
  \/ \E newConfig \in MgrUpdates : ManagerUpdateConfig(newConfig)
  \/ ManagerClear
  \/ ManagerCleanup
  \/ \E enabled \in BOOLEAN : SetEnabled(enabled)
  \/ \E w \in {0, AggMaxAdds} : GetTimelineAnalytics(w)
  \/ GetTimelineData(AggMaxAdds, NoArg)
  \/ GetAggregatedTimelineData(AggMaxAdds, NoArg)
  \/ \E filter \in MgrFilters : GetFilteredTimelineData(AggMaxAdds, filter)

SpecMgr == InitMgr /\ [][NextMgr]_vars

\* An aggregator on its own, with and without prediction, with and without
\* downsampling of the series it analyses.
InitAnalytics ==
  \E enablePrediction \in BOOLEAN, maxDataPoints \in {2, MaxPoints} :
     InitManaged("none", MgrConfig(enablePrediction, maxDataPoints))

NextAnalytics ==
  \/ \E entries \in AnalyticsBatches : ProcessEntries(entries)
  \/ \E w \in AnalyticsWindows : GetTimelineAnalytics(w)

SpecAnalytics == InitAnalytics /\ [][NextAnalytics]_vars

\* C18: while the timeline is disabled, in either manager, getTimelineData,
\* getAggregatedTimelineData and getFilteredTimelineData return no points and
\* getTimelineAnalytics returns no peak, rate 0, growth 0, a stable trend of
\* strength 0 and no prediction, for every window, whatever was processed
\* before the disabling or offered to processEntries since.
DisabledNeutral ==
  (manager # "none" /\ ~isEnabled) =>
     \A w \in AnalyticsWindows :
        /\ \A maxPoints \in {NoArg, 1, MaxPoints} :
              /\ managerGetTimelineData(w, maxPoints) = <<>>
              /\ managerGetAggregatedTimelineData(w, maxPoints) = <<>>
        /\ \A filter \in MgrFilters :
              managerGetFilteredTimelineData(w, filter) = <<>>
        /\ LET a == managerGetTimelineAnalytics(w)
           IN /\ a.peakUsageTime = null
              /\ a.averageUsageRate = Ratio(0, 1)
              /\ a.growthRate = Ratio(0, 1)
              /\ a.trends = [direction |-> "stable", strength |-> Ratio(0, 1)]
              /\ a.prediction = null

\* The manager of the index module, which asks the aggregator whether it is
\* enabled or not, was disabled after two points were processed and has
\* answered an analytics query over the whole window since.
DisabledNeutralWitness ==
  /\ manager = "index"
  /\ ~isEnabled
  /\ Len(added) >= 2
  /\ lastOp.op = "getTimelineAnalytics"
  /\ result.timeWindowMs = AggMaxAdds
  /\ result.value.peakUsageTime = null
  /\ result.value.prediction = null

\* C19: getTimelineAnalytics over a window that holds no point returns no
\* peak, rate 0, growth 0, a stable trend of strength 0 and no prediction,
\* with config.enablePrediction on as well as off.
EmptyWindowNeutral ==
  \A w \in AnalyticsWindows :
     getDataInTimeWindow(self, now - w, now) = <<>> =>
        LET a == getTimelineAnalytics(self, w)
        IN /\ a.peakUsageTime = null
           /\ a.averageUsageRate = Ratio(0, 1)
           /\ a.growthRate = Ratio(0, 1)
           /\ a.trends.direction = "stable"
           /\ a.trends.strength = Ratio(0, 1)
           /\ a.prediction = null

\* With prediction enabled and points in the buffer, analytics were asked
\* over a window that holds none of them.
EmptyWindowNeutralWitness ==
  /\ config.enablePrediction
  /\ size >= 2
  /\ lastOp.op = "getTimelineAnalytics"
  /\ getDataInTimeWindow(self, now - result.timeWindowMs, now) = <<>>
  /\ result.value.prediction = null
  /\ result.value.peakUsageTime = null

\* the series getTimelineAnalytics(w) analyses
AnalysedSeries(w) == getTimelineData(self, w, NoArg)

\* C20: with the analysed series split at index floor(n / 2), growthRate is
\* (secondHalfTokens - firstHalfTokens) / firstHalfTokens * 100, and 0 when
\* firstHalfTokens is 0, as for every series of one point; when the second
\* half sums to twice the first, growthRate is 100 and the direction is
\* increasing.
GrowthRate ==
  \A w \in AnalyticsWindows :
     LET series == AnalysedSeries(w)
         n == Len(series)
         firstHalfTokens == SumOf(SubSeq(series, 1, n \div 2), "totalTokens")
         secondHalfTokens ==
           SumOf(SubSeq(series, (n \div 2) + 1, n), "totalTokens")
         a == getTimelineAnalytics(self, w)
     IN n >= 1 =>
          /\ firstHalfTokens = 0 => a.growthRate = Ratio(0, 1)
          /\ n = 1 => a.growthRate = Ratio(0, 1)
          /\ firstHalfTokens > 0 =>
                a.growthRate.num * firstHalfTokens
                  = (secondHalfTokens - firstHalfTokens) * 100
                      * a.growthRate.den
          /\ (firstHalfTokens > 0 /\ secondHalfTokens = 2 * firstHalfTokens) =>
                /\ a.growthRate = Ratio(100, 1)
                /\ a.trends.direction = "increasing"

\* Analytics were asked over three points, split into one and two, whose
\* second half sums to twice the first: growthRate 100, increasing.
GrowthRateWitness ==
  /\ lastOp.op = "getTimelineAnalytics"
  /\ Len(AnalysedSeries(result.timeWindowMs)) = 3
  /\ AnalysedSeries(result.timeWindowMs)[1].totalTokens = 1
  /\ AnalysedSeries(result.timeWindowMs)[2].totalTokens = 1
  /\ AnalysedSeries(result.timeWindowMs)[3].totalTokens = 1
  /\ result.value.growthRate = Ratio(100, 1)
  /\ result.value.trends.direction = "increasing"

\* Token counts around the trend threshold: 20 then 21 grows by exactly 5
\* per cent, 20 then 19 shrinks by exactly 5, 19 then 20 grows by more.
TrendBatches == BatchesOf({19, 20, 21})

InitTrend == InitManaged("none", MgrConfig(FALSE, MaxPoints))

NextTrend ==
  \/ \E entries \in TrendBatches : ProcessEntries(entries)
  \/ \E w \in AnalyticsWindows : GetTimelineAnalytics(w)

SpecTrend == InitTrend /\ [][NextTrend]_vars

\* C21: the direction is increasing iff growthRate > 5, decreasing iff
\* growthRate < -5 and stable otherwise, growthRate exactly 5 or -5 included;
\* the strength is the smaller of |growthRate| / 100 and 1 when the
\* direction is not stable and 0 when it is, so it lies in [0, 1] and is 0
\* exactly when the direction is stable.
TrendClassification ==
  \A w \in AnalyticsWindows :
     LET a == getTimelineAnalytics(self, w)
         g == a.growthRate
         strength == a.trends.strength
         direction == a.trends.direction
     IN /\ direction \in {"increasing", "decreasing", "stable"}
        /\ direction = "increasing" <=> g.num > 5 * g.den
        /\ direction = "decreasing" <=> g.num < -5 * g.den
        /\ direction # "stable" =>
              /\ Abs(g.num) <= 100 * g.den =>
                    strength.num * 100 * g.den = Abs(g.num) * strength.den
              /\ Abs(g.num) >= 100 * g.den => strength = Ratio(1, 1)
        /\ direction = "stable" <=> strength = Ratio(0, 1)
        /\ 0 <= strength.num /\ strength.num <= strength.den

\* Analytics were asked over the two points 20 and 21: growthRate is exactly
\* 5 and the trend is stable with strength 0.
TrendClassificationWitness ==
  /\ lastOp.op = "getTimelineAnalytics"
  /\ Len(AnalysedSeries(result.timeWindowMs)) = 2
  /\ AnalysedSeries(result.timeWindowMs)[1].totalTokens = 20
  /\ AnalysedSeries(result.timeWindowMs)[2].totalTokens = 21
  /\ result.value.growthRate = Ratio(5, 1)
  /\ result.value.trends = [direction |-> "stable", strength |-> Ratio(0, 1)]

\* the points of the window [now - w, now] as stored, not downsampled
RawWindow(w) == getDataInTimeWindow(self, now - w, now)

\* C22: the analytics of a window are those of its raw points: peakUsageTime,
\* growthRate and trend equal the analytics formulas applied to the stored
\* points of [now - w, now], however many they are.
AnalyticsOverRawWindow ==
  \A w \in AnalyticsWindows :
     LET a == getTimelineAnalytics(self, w)
         raw == analyticsOf(RawWindow(w))
     IN /\ a.peakUsageTime = raw.peakUsageTime
        /\ a.growthRate = raw.growthRate
        /\ a.trends = raw.trends

\* C23: peakUsageTime is the timestamp of the point of the analysed series
\* with the largest totalTokens, and of the first such point in series order
\* when several points share the maximum.
PeakUsageTime ==
  \A w \in AnalyticsWindows :
     LET series == AnalysedSeries(w)
         a == getTimelineAnalytics(self, w)
     IN Len(series) >= 1 =>
          \E i \in 1..Len(series) :
             /\ a.peakUsageTime = series[i].timestamp
             /\ \A j \in 1..Len(series) :
                   series[j].totalTokens <= series[i].totalTokens
             /\ \A j \in 1..(i - 1) :
                   series[j].totalTokens < series[i].totalTokens

\* Analytics were asked over three points of which the second and the third
\* tie for the maximum: the peak is the second.
PeakUsageTimeWitness ==
  /\ lastOp.op = "getTimelineAnalytics"
  /\ Len(AnalysedSeries(result.timeWindowMs)) = 3
  /\ AnalysedSeries(result.timeWindowMs)[1].totalTokens = 1
  /\ AnalysedSeries(result.timeWindowMs)[2].totalTokens = 2
  /\ AnalysedSeries(result.timeWindowMs)[3].totalTokens = 2
  /\ result.value.peakUsageTime
       = AnalysedSeries(result.timeWindowMs)[2].timestamp

\* Entries of two providers and models: one that costs 1 for 1 token, one
\* that costs nothing for 2 tokens (cache creation only).
FilterBatches ==
  {<<>>, <<Entry(Len(added), "m1", "p1", 1, 0, 0, 0)>>,
   <<Entry(Len(added), "m2", "p2", 0, 0, 2, 0)>>}

\* Filters with every criterion absent, given, and given as 0.
Filters ==
  [providers : {{}, {"p1"}}, models : {{}, {"m2"}},
   minTokens : {NoArg, 0, 2}, maxCost : {NoArg, 0, 1},
   startDate : {NoArg, 1}, endDate : {NoArg, 1}]

FilterWindows == {1, AggMaxAdds}

\* An aggregator that never downsamples, fed and asked for filtered data.
InitFilter == InitManaged("none", MgrConfig(FALSE, MaxPoints))

NextFilter ==
  \/ \E entries \in FilterBatches : ProcessEntries(entries)
  \/ \E w \in FilterWindows, filter \in Filters :
        GetFilteredTimelineData(w, filter)

SpecFilter == InitFilter /\ [][NextFilter]_vars

\* point satisfies every criterion that filter gives
Satisfies(point, filter) ==
  /\ filter.providers # {} =>
        DOMAIN point.providerBreakdown \cap filter.providers # {}
  /\ filter.models # {} =>
        DOMAIN point.modelBreakdown \cap filter.models # {}
  /\ filter.minTokens # NoArg => point.totalTokens >= filter.minTokens
  /\ filter.maxCost # NoArg => point.costUSD <= filter.maxCost
  /\ filter.startDate # NoArg => point.timestamp >= filter.startDate
  /\ filter.endDate # NoArg => point.timestamp <= filter.endDate

\* C24: getFilteredTimelineData(w, filter) returns exactly the points of the
\* window [now - w, now] that satisfy all given criteria, in their order; an
\* empty providers or models list restricts nothing, and every given numeric
\* bound is enforced, a bound of 0 included.
FilterEnforcesEveryBound ==
  \A w \in FilterWindows, filter \in Filters :
     getFilteredTimelineData(self, w, filter)
       = SelectSeq(RawWindow(w), LAMBDA point : Satisfies(point, filter))

\* C25: processEntries on an empty batch is a no-op, in the aggregator and
\* in the manager, enabled or not: slots, head, tail, size and capacity are
\* unchanged, no event is emitted and no error is raised.
EmptyBatchNoOp ==
  /\ [](LET r == processEntries(self, <<>>, Len(added) + 1)
        IN r.b = self /\ r.events = <<>> /\ r.points = <<>>)
  /\ [][(lastOp'.op = "processEntries" /\ lastOp'.n = 0) =>
          /\ UNCHANGED <<bufVars, aggVars, added>>
          /\ events' = <<>>
          /\ ~lastOp'.threw]_vars

\* An enabled manager holding two points was handed an empty batch.
EmptyBatchNoOpWitness ==
  /\ manager # "none"
  /\ isEnabled
  /\ lastOp.op = "processEntries"
  /\ lastOp.n = 0
  /\ size = 2
  /\ events = <<>>

\* Batches whose bucketing depends on the resolution: the entry at 1 falls
\* into the interval 0 under resolution 2 and into 1 under resolution 1; the
\* entries at 2 and 3 share an interval under 2 and not under 1.
ResBatches ==
  {<<>>, <<Entry(2, "m1", "p1", 1, 0, 0, 0), Entry(3, "m1", "p1", 2, 0, 0, 0)>>}
  \cup {<<Entry(ts, "m1", "p1", 1, 0, 0, 0)>> : ts \in 1..3}

ResUpdates == {[resolutionMs |-> r] : r \in 1..2}

\* An aggregator of resolution 2, fed while its resolution is changed.
InitRes == InitManaged("none", NewConfig(MaxCap + 1, 2 * AggMaxAdds))

NextRes ==
  \/ \E entries \in ResBatches : ProcessEntries(entries)
  \/ \E newConfig \in ResUpdates : UpdateConfig(newConfig)

SpecRes == InitRes /\ [][NextRes]_vars

\* C26: an updateConfig that changes resolutionMs leaves every buffered
\* point, head, tail and size as they are; the entries of a later
\* processEntries call are bucketed with the resolution then configured.
ResolutionChange ==
  [][/\ \A newConfig \in ResUpdates :
           (lastOp'.op = "updateConfig" /\ UpdateConfig(newConfig)) =>
              /\ UNCHANGED bufVars
              /\ config'.resolutionMs = newConfig.resolutionMs
     /\ \A entries \in ResBatches :
           (lastOp'.op = "processEntries" /\ ProcessEntries(entries)) =>
              LET new == SubSeq(added', Len(added) + 1, Len(added'))
                  starts == {intervalStartOf(entries[i].timestamp,
                                             config.resolutionMs) :
                               i \in 1..Len(entries)}
              IN /\ {new[i].timestamp : i \in 1..Len(new)} = starts
                 /\ Len(new) = Cardinality(starts)
                 /\ \A i \in 1..size :
                       buffer'[(tail + i - 1) % capacity]
                         = buffer[(tail + i - 1) % capacity]]_vars

\* A point bucketed at 0 under resolution 2 (from the entry at 1) is still
\* in the buffer after the resolution became 1, and the batch of the entries
\* at 2 and 3 has since made two points.
ResolutionChangeWitness ==
  /\ config.resolutionMs = 1
  /\ lastOp.op = "processEntries"
  /\ size = 3
  /\ buffer[tail].timestamp = 0
  /\ buffer[(tail + 1) % capacity].timestamp = 2
  /\ buffer[(tail + 2) % capacity].timestamp = 3
  /\ buffer[(tail + 2) % capacity].totalTokens = 2

\* What exportTimeline hands back: a string or a Buffer, named by the
\* serializer that made it and the data points it was made from.
Payload(type, serializer, dataPoints) ==
  [type |-> type, serializer |-> serializer, dataPoints |-> dataPoints]

NoPayload == Payload("undefined", "", <<>>)

\* exportTimeline(exportOptions) of the two managers.  TimelineManager
\* answers a disabled timeline before it looks at the format: '[]' for json,
\* Buffer.alloc(0) for everything else; the manager of the index module
\* always reaches the switch.  timeWindowMs is not 0.
exportTimeline(exportOptions) ==
  LET format == exportOptions.format
      timeWindowMs == exportOptions.timeWindowMs
      resolution == exportOptions.resolution
  IN IF answersDisabled
     THEN [threw |-> FALSE,
           payload |-> IF format = "json"
                       THEN Payload("string", "'[]'", <<>>)
                       ELSE Payload("Buffer", "Buffer.alloc(0)", <<>>)]
     ELSE LET dataPoints == getTimelineData(self, timeWindowMs, resolution)
          IN CASE format = "json" ->
                    [threw |-> FALSE,
                     payload |-> Payload("string",
                                         IF manager = "TimelineManager"
                                         THEN "JSON.stringify"
                                         ELSE "exportToJSON", dataPoints)]
               [] format = "csv" ->
                    [threw |-> FALSE,
                     payload |-> Payload("string", "exportToCSV", dataPoints)]
               [] format = "png" ->
                    [threw |-> FALSE,
                     payload |->
                       Payload("Buffer", "renderFullTimeline",
                               getAggregatedTimelineData(self, timeWindowMs,
                                                         resolution))]
               [] OTHER ->
                    \* throw new Error(`Unsupported export format: ...`)
                    [threw |-> TRUE, payload |-> NoPayload]

ExportTimeline(exportOptions) ==
  /\ manager # "none"
  /\ LET r == exportTimeline(exportOptions)
     IN /\ result' = [query |-> "exportTimeline",
                      timeWindowMs |-> exportOptions.timeWindowMs,
                      value |-> r.payload]
        /\ lastOp' = [AggOp("exportTimeline") EXCEPT !.threw = r.threw]
  /\ events' = <<>>
  /\ UNCHANGED <<bufVars, aggVars, now, added, run>>

SupportedFormats == {"png", "csv", "json"}

\* the format selectors of SpecExport: the supported ones and two others
ExportFormats == SupportedFormats \cup {"xml", ""}

ExportOptions ==
  [format : ExportFormats, timeWindowMs : {AggMaxAdds},
   includeBreakdown : {FALSE}, resolution : {MaxPoints}]

\* One of the two managers, fed, switched off and on, and asked to export.
InitExport == InitMgr

NextExport ==
  \/ ManagerInitialize
  \/ Sweep
  \/ \E entries \in MgrBatches : ManagerProcessEntries(entries)
  \/ \E newConfig \in MgrUpdates : ManagerUpdateConfig(newConfig)
  \/ ManagerClear
  \/ ManagerCleanup
  \/ \E enabled \in BOOLEAN : SetEnabled(enabled)
  \/ \E exportOptions \in ExportOptions : ExportTimeline(exportOptions)

SpecExport == InitExport /\ [][NextExport]_vars

\* C27: exportTimeline with a format selector other than csv, json or png
\* signals the unsupported-format error and returns no payload, whether the
\* manager is enabled or disabled and the buffer empty or not.
UnsupportedFormatRejected ==
  \A exportOptions \in ExportOptions :
     exportOptions.format \notin SupportedFormats =>
        /\ exportTimeline(exportOptions).threw
        /\ exportTimeline(exportOptions).payload = NoPayload

\* the positions in evs of the events of one type
EventsOfType(evs, type) == {i \in 1..Len(evs) : evs[i].type = type}

\* C28: every add emits exactly one 'data-point-added' event; it emits a
\* 'buffer-overflow' event exactly when it returns true, and before its
\* 'data-point-added' event; cleanup emits one 'memory-cleanup' event
\* carrying the removed count exactly when it removed at least one point, and
\* none when it removed nothing.
EventProtocol ==
  [][/\ lastOp'.op = "add" =>
          LET pointAdded == EventsOfType(events', "data-point-added")
              overflow == EventsOfType(events', "buffer-overflow")
          IN /\ Cardinality(pointAdded) = 1
             /\ \A i \in pointAdded : events'[i].data = lastOp'.point
             /\ Cardinality(overflow) = (IF lastOp'.ret = TRUE THEN 1 ELSE 0)
             /\ \A i \in overflow, j \in pointAdded : i < j
     /\ lastOp'.op = "cleanup" =>
          LET removed == size - size'
              cleaned == EventsOfType(events', "memory-cleanup")
          IN /\ lastOp'.ret = removed
             /\ Cardinality(cleaned) = (IF removed >= 1 THEN 1 ELSE 0)
             /\ \A i \in cleaned : events'[i].removed = removed
             /\ Len(events') = Cardinality(cleaned)]_vars

\* An add into a full buffer returned true and emitted 'buffer-overflow'
\* then 'data-point-added'.
EventProtocolOverflowWitness ==
  /\ lastOp.op = "add"
  /\ lastOp.ret = TRUE
  /\ Len(events) = 2
  /\ events[1].type = "buffer-overflow"
  /\ events[2].type = "data-point-added"

\* C29: the event a successful resize emits carries the capacity in force
\* before the call as oldCapacity and the requested capacity as newCapacity.
ResizeEventCapacities ==
  [][(lastOp'.op = "resize" /\ ~lastOp'.threw) =>
        /\ Len(events') = 1
        /\ events'[1].type = "buffer-resized"
        /\ events'[1].oldCapacity = capacity
        /\ events'[1].newCapacity = lastOp'.n]_vars

\* C30: every group that the grouping step builds from a batch holds at
\* least one entry, so processEntries never hands createTimelineDataPoint an
\* empty group and its malformed-batch error is never raised.
NoEmptyGroup ==
  /\ \A entries \in ResBatches \cup Batches :
        LET groups == groupEntriesByTimeInterval(entries, config.resolutionMs)
        IN /\ \A g \in 1..Len(groups) : ~emptyGroup(groups[g].entries)
           /\ ~processEntries(self, entries, Len(added) + 1).threw
  /\ lastOp.op = "processEntries" => ~lastOp.threw

\* Under resolution 1 the batch of the entries at 2 and 3 was grouped into
\* two groups of one entry, and both became points.
NoEmptyGroupWitness ==
  /\ lastOp.op = "processEntries"
  /\ lastOp.n = 2
  /\ ~lastOp.threw
  /\ config.resolutionMs = 1
  /\ Len(events) = 2
  /\ events[1].data.entryCount = 1
  /\ events[2].data.entryCount = 1

\* the object state the constructor leaves for config.bufferSize = bufferSize
newCircularBuffer(bufferSize) ==
  [buffer |-> [i \in Slots |-> undefined], head |-> 0, tail |-> 0,
   size |-> 0, capacity |-> bufferSize]

\* the windows asked of a buffer: every [startTimeMs, endTimeMs] in range
AllWindows == (0..(MaxNow + 1)) \X (0..(MaxNow + 1))

\* C31: clear() leaves size 0 and the capacity it found; getOldest() and
\* getNewest() return none and every window query returns the empty
\* sequence; the buffer is in the state of a newly constructed buffer of that
\* capacity, so the adds that follow behave as on such a buffer.
ClearResets ==
  [][lastOp'.op = "clear" =>
        /\ size' = 0
        /\ capacity' = capacity
        /\ getOldest(selfNext) = null
        /\ getNewest(selfNext) = null
        /\ getRecent(selfNext, MaxCap) = <<>>
        /\ \A w \in AllWindows :
              getDataInTimeWindow(selfNext, w[1], w[2]) = <<>>
        /\ selfNext = newCircularBuffer(capacity)
        /\ LET p == MkPoint(Len(added) + 1, now, ShapeOfId(1))
           IN add(selfNext, p) = add(newCircularBuffer(capacity), p)]_vars

\* A buffer resized to two slots, to which at least two points had been
\* added, was cleared.
ClearResetsWitness ==
  /\ lastOp.op = "clear"
  /\ Len(added) >= 2
  /\ capacity = 2
  /\ size = 0
  /\ head = 0
  /\ tail = 0

\* C32: a window of at most maxPoints points is returned unchanged; a longer
\* one is cut, in chronological order, into contiguous batches of
\* ceil(len / maxPoints) points, the last possibly shorter; a batch of one
\* point is passed through as it is, and a larger batch becomes one point
\* with the first element's timestamp and the duration
\* (last.timestamp + last.durationMs) - first.timestamp; the result is in
\* chronological order.  Stated of the points each call returned.
DownsamplingShape ==
  lastOp.op = "getDataWithResolution" =>
     LET all == getDataInTimeWindow(self, result.startTimeMs,
                                    result.endTimeMs)
         out == result.points
         maxPoints == result.maxPoints
         len == Len(all)
         step == (len + maxPoints - 1) \div maxPoints
     IN /\ IF len <= maxPoints THEN out = all
           ELSE /\ Len(out) = (len + step - 1) \div step
                /\ \A k \in 1..Len(out) :
                      LET from == (k - 1) * step + 1
                          to == IF k * step < len THEN k * step ELSE len
                          first == all[from]
                          last == all[to]
                      IN /\ to - from + 1 = step \/ k = Len(out)
                         /\ to = from => out[k] = first
                         /\ to > from =>
                               /\ out[k].timestamp = first.timestamp
                               /\ out[k].durationMs
                                    = (last.timestamp + last.durationMs)
                                        - first.timestamp
                               /\ out[k].id = 0
        /\ \A k \in 1..(Len(out) - 1) :
              out[k].timestamp <= out[k + 1].timestamp

\* Seven points were asked for with maxPoints 3: batches of 3, 3 and 1, the
\* last passed through as the stored point.
DownsamplingShapeWitness ==
  /\ lastOp.op = "getDataWithResolution"
  /\ result.maxPoints = 3
  /\ Len(getDataInTimeWindow(self, result.startTimeMs, result.endTimeMs)) = 7
  /\ Len(result.points) = 3
  /\ result.points[1].id = 0
  /\ result.points[1].durationMs = 3
  /\ result.points[3].id # 0

\* C33: whenever capacity >= 1 the cursors are consistent: head and tail lie
\* in 0..capacity-1, head = (tail + size) mod capacity, and each of the size
\* slots from tail on, modulo capacity, holds a point.
CursorConsistency ==
  capacity >= 1 =>
     /\ 0 <= head /\ head < capacity
     /\ 0 <= tail /\ tail < capacity
     /\ head = (tail + size) % capacity
     /\ \A i \in 0..(size - 1) : buffer[(tail + i) % capacity] # undefined

\* C34: after any sequence of add, cleanup, clear and resize calls, an add(p)
\* makes p the newest live point: getNewest() returns p, getRecent(1) returns
\* <<p>>, and the window query over the whole range ends with p.
AddMakesNewest ==
  [][(lastOp'.op = "add" /\ capacity >= 1) =>
        LET p == lastOp'.point
            full == getDataInTimeWindow(selfNext, 0, MaxNow + 1)
        IN /\ getNewest(selfNext) = p
           /\ getRecent(selfNext, 1) = <<p>>
           /\ Len(full) >= 1
           /\ full[Len(full)] = p]_vars

\* C35: an updateConfig that asks for a bufferSize below the live size fails
\* and changes nothing: the configuration, the buffer's capacity and content
\* and the sweep timer are as before, and config.bufferSize is still the
\* buffer's capacity.
UpdateConfigFailsCleanly ==
  [][(lastOp'.op = "updateConfig" /\ lastOp'.n >= 1 /\ lastOp'.n < size) =>
        /\ lastOp'.threw
        /\ UNCHANGED <<bufVars, config, aggregationTimer, activeTimers>>
        /\ config'.bufferSize = capacity']_vars

\* C36: the aggregator sweeps inside every add that overflows, and the point
\* carried by each 'data-point-added' event (forwarded as 'timeline-updated')
\* is still live in the buffer when the event is delivered.
EventPointLive ==
  \A i \in 1..Len(events) :
     events[i].type = "data-point-added" => events[i].dataLive

\* C37: after any sequence of processEntries calls, the same batch processed
\* again included, the live points have pairwise different bucket-start
\* timestamps.
OnePointPerBucket ==
  \A i, j \in 0..(size - 1) :
     LET p == buffer[(tail + i) % capacity]
         q == buffer[(tail + j) % capacity]
     IN (i # j /\ p # undefined /\ q # undefined) =>
           p.timestamp # q.timestamp

\* C38: for every maxPoints >= 1 and every buffer state,
\* getDataWithResolution(start, end, maxPoints) returns at most maxPoints
\* points.  Stated of the points each call returned and, in each buffer
\* state as the adds left it, of every maxPoints up to the buffer's capacity.
AtMostMaxPoints ==
  /\ lastOp.op = "getDataWithResolution" =>
        Len(result.points) <= result.maxPoints
  /\ lastOp.op # "getDataWithResolution" =>
        \A maxPoints \in 1..DownCap :
           Len(getDataWithResolution(self, 1, DownCap, maxPoints))
             <= maxPoints

\* Ten points were asked for with maxPoints 3 and three came back.
AtMostMaxPointsWitness ==
  /\ lastOp.op = "getDataWithResolution"
  /\ result.maxPoints = 3
  /\ Len(getDataInTimeWindow(self, result.startTimeMs, result.endTimeMs))
       = DownCap
  /\ Len(result.points) = 3

\* The partial configurations of SpecTimer: the sweep interval, changed or not.
TimerUpdates == {[aggregationIntervalMs |-> i] : i \in 1..2}

\* An aggregator that is initialized, reconfigured, fed, swept and cleaned up.
InitTimer == InitAgg

NextTimer ==
  \/ Initialize
  \/ \E newConfig \in TimerUpdates : UpdateConfig(newConfig)
  \/ AggCleanup
  \/ Sweep
  \/ \E entries \in CfgBatches : ProcessEntries(entries)
  \/ Tick

SpecTimer == InitTimer /\ [][NextTimer]_vars

\* C39: at most one sweep timer is active at a time, and after cleanup() no
\* sweep timer is active until initialize is called again: the call that
\* follows a cleanup() leaves no timer active unless it is initialize.
SweepTimerDiscipline ==
  /\ [](Cardinality(activeTimers) <= 1)
  /\ [][(lastOp.op = "aggregatorCleanup"
         /\ lastOp'.op \notin {"initialize", "aggregatorCleanup"}) =>
           activeTimers' = {}]_vars

====
